---- MODULE Spec2Model ----
(***************************************************************************)
(* Schema introspection of db.py: DB.refresh_schema, Table construction    *)
(* with foreign-key / ref-key resolution, the per-dialect catalog queries, *)
(* the serialized form of a snapshot, and the glob searches find_table /   *)
(* find_column.                                                            *)
(*                                                                         *)
(* Python strings are sequences of one-character strings, so that          *)
(* concatenation, ordering and glob matching are computed, not assumed.    *)
(* Objects (Column, Table, TableSet) live in heaps indexed by identity.    *)
(*                                                                         *)
(* The repository holds two generations of the entity classes.  db.py has  *)
(* DB with refresh_schema, find_table and find_column, and an older Column *)
(* and Table without a schema field, whose rows have three fields.         *)
(* column.py and table.py have the Column and Table with a schema field,   *)
(* whose key rows have four fields, as the system queries of               *)
(* queries/sqlite.py and queries/mysql.py return them.  The model follows  *)
(* refresh_schema of db.py as the orchestration, with rows that carry the  *)
(* schema first, and Column and Table of column.py and table.py.  The      *)
(* batched and the cached resolution have no code in the repository beyond *)
(* the whole-database queries of queries/mysql.py, the foreign_keys and    *)
(* ref_keys parameters of Table.__init__ and the to_dict methods; their    *)
(* orchestration follows the written specification.                        *)
(***************************************************************************)
EXTENDS Integers, Sequences, FiniteSets, TLC

VARIABLES
    dialect,     \* DB.dbtype: which entry of queries_templates is in use
    catalog,     \* the backend's metadata: column rows and foreign-key rows
    columns,     \* heap of Column objects: identity -> fields
    tables,      \* heap of Table objects: identity -> fields
    tablesets,   \* heap of TableSet objects: identity -> list of Table identities
    db_tables,   \* DB.tables: the identity of the published TableSet
    pc,          \* position of the refresh in progress ("idle" when none)
    loc,         \* locals of the refresh in progress
    outcome,     \* the last refresh: status "none" (running or never called), "ok",
                 \* "raised"; where it raised; the rows its schema query returned
    pre,         \* DB.tables, its contents and the backend's metadata when the last
                 \* refresh was called
    published,   \* for every TableSet ever assigned to DB.tables, its contents then
    held,        \* the TableSet reference a reader took from DB.tables
    found,       \* the result of the last find_table / find_column call
    nrefresh,    \* number of refresh_schema calls made so far
    metatable,   \* SQLite: tmp_dbpy_schema and tmp_dbpy_foreign_keys, built at connect
    res,         \* results of the resolutions compared by the strategy checks
    ctor,        \* Table construction on its own: what each call built
    home,        \* the user's home directory: file name -> decoded content
    db,          \* the DB object a connect call produced (or none) and its fields
    con,         \* the connections opened so far
    ret,         \* the last call on the profile store and what it returned or raised
    qry,         \* a query call: its arguments, the text query executed and the text
                 \* query_from_file executed
    issued,      \* the catalog queries issued so far, as text, with the rows returned
    upload,      \* a to_redshift call: its position, its worker threads, S3, the
                 \* commands executed on the connection
    colq         \* the Columns an introspection made, with the connection and the
                 \* templates each was given, and a query one of them built

\* the variables of the refresh and of the searches
refreshVars == <<dialect, catalog, columns, tables, tablesets, db_tables, pc, loc,
                 outcome, pre, published, held, found, nrefresh, metatable, res>>

\* the variables of Table construction, of connecting and the profile store,
\* and of querying
sessionVars == <<ctor, home, db, con, ret, qry, issued, upload, colq>>

vars == <<refreshVars, sessionVars>>

----------------------------------------------------------------------------
(* Strings *)

\* The characters that occur in the strings of the model, in code point order
\* (Python compares str by code point; upper case sorts before "_" and lower case).
CodePoints ==
    <<"!", "%", "*", "-", "?", "A", "E", "I", "N", "T", "X", "Z", "[", "]", "_",
      "a", "b", "c", "d", "e", "h", "i", "k", "l", "m", "n", "o", "p",
      "r", "s", "t", "u", "y">>

Ord(c) == CHOOSE i \in 1..Len(CodePoints) : CodePoints[i] = c

\* str.__lt__: lexicographic by code point, a proper prefix sorts first
RECURSIVE StrLess(_, _)
StrLess(a, b) ==
    IF b = <<>> THEN FALSE
    ELSE IF a = <<>> THEN TRUE
    ELSE IF a[1] = b[1] THEN StrLess(Tail(a), Tail(b))
    ELSE Ord(a[1]) < Ord(b[1])

\* table names
Album  == <<"A", "l", "b", "u", "m">>
Artist == <<"A", "r", "t", "i", "s", "t">>
Track  == <<"T", "r", "a", "c", "k">>
Ghost  == <<"Z", "i", "p">>
\* column names
AlbumId  == <<"A", "l", "b", "u", "m", "I", "d">>
ArtistId == <<"A", "r", "t", "i", "s", "t", "I", "d">>
TrackId  == <<"T", "r", "a", "c", "k", "I", "d">>
Title    == <<"T", "i", "t", "l", "e">>
s_name   == <<"n", "a", "m", "e">>
s_con    == <<"c", "o", "n">>
s_count  == <<"c", "o", "u", "n", "t">>
\* schema names
s_public == <<"p", "u", "b", "l", "i", "c">>
s_schema == <<"s", "c", "h", "e", "m", "a">>
s_main   == <<"m", "a", "i", "n">>
s_aux    == <<"a", "u", "x">>
\* type names and the remaining keys of Column.to_dict
INTEGER  == <<"I", "N", "T">>
TEXT     == <<"T", "E", "X", "T">>
s_table  == <<"t", "a", "b", "l", "e">>
s_type   == <<"t", "y", "p", "e">>

----------------------------------------------------------------------------
(* glob.fnmatch.fnmatch(name, pat) on a POSIX system: normcase is the       *)
(* identity, so the match is case-sensitive; the pattern is translated      *)
(* character by character ('*', '?', '[seq]', '[!seq]', anything else       *)
(* literal) and must match the whole name.                                  *)

\* index of the ']' that closes the '[' at position i, 0 when there is none:
\* a '!' right after '[' and a ']' right after that are part of the class
RECURSIVE ScanClose(_, _)
ScanClose(pat, j) ==
    IF j > Len(pat) THEN 0
    ELSE IF pat[j] = "]" THEN j
    ELSE ScanClose(pat, j + 1)

ClassEnd(pat, i) ==
    LET j1 == IF i + 1 <= Len(pat) /\ pat[i + 1] = "!" THEN i + 2 ELSE i + 1
        j2 == IF j1 <= Len(pat) /\ pat[j1] = "]" THEN j1 + 1 ELSE j1
    IN  ScanClose(pat, j2)

\* does character c belong to the class body stuff (without the '!')
InClass(stuff, c) ==
    \E m \in 1..Len(stuff) :
        \/ /\ stuff[m] = c
           /\ ~(c = "-" /\ 1 < m /\ m < Len(stuff))
        \/ /\ m + 2 <= Len(stuff)
           /\ stuff[m + 1] = "-"
           /\ Ord(stuff[m]) <= Ord(c)
           /\ Ord(c) <= Ord(stuff[m + 2])

RECURSIVE MatchFrom(_, _, _, _)
MatchFrom(pat, str, i, k) ==
    IF i > Len(pat) THEN k > Len(str)
    ELSE IF pat[i] = "*" THEN
        \/ MatchFrom(pat, str, i + 1, k)
        \/ k <= Len(str) /\ MatchFrom(pat, str, i, k + 1)
    ELSE IF pat[i] = "?" THEN
        k <= Len(str) /\ MatchFrom(pat, str, i + 1, k + 1)
    ELSE IF pat[i] = "[" /\ ClassEnd(pat, i) # 0 THEN
        LET j     == ClassEnd(pat, i)
            neg   == pat[i + 1] = "!"
            stuff == SubSeq(pat, IF neg THEN i + 2 ELSE i + 1, j - 1)
        IN  /\ k <= Len(str)
            /\ (InClass(stuff, str[k]) # neg)
            /\ MatchFrom(pat, str, j + 1, k + 1)
    ELSE
        k <= Len(str) /\ str[k] = pat[i] /\ MatchFrom(pat, str, i + 1, k + 1)

\* str.lower on the characters of the model
LowerChar(c) ==
    CASE c = "A" -> "a" [] c = "E" -> "e" [] c = "I" -> "i" [] c = "N" -> "n"
      [] c = "T" -> "t" [] c = "X" -> "x" [] c = "Z" -> "z" [] OTHER -> c

\* fnmatch after a case-folding normcase, as on a case-insensitive platform
fnmatch_casefold(name, pat) ==
    MatchFrom([i \in 1..Len(pat) |-> LowerChar(pat[i])],
              [i \in 1..Len(name) |-> LowerChar(name[i])], 1, 1)

fnmatch(name, pat) == MatchFrom(pat, name, 1, 1)

----------------------------------------------------------------------------
(* The backend's metadata and the catalog queries of each dialect *)

Col(schema, table, column, type) ==
    [schema |-> schema, table |-> table, column |-> column, type |-> type]

\* a foreign-key constraint on schema.table.column that references
\* fschema.ftable.fcolumn
FK(schema, table, column, fschema, ftable, fcolumn) ==
    [schema |-> schema, table |-> table, column |-> column,
     fschema |-> fschema, ftable |-> ftable, fcolumn |-> fcolumn]

ArtistCols == <<Col(s_main, Artist, ArtistId, INTEGER), Col(s_main, Artist, s_name, TEXT)>>
AlbumCols  == <<Col(s_main, Album, AlbumId, INTEGER), Col(s_main, Album, Title, TEXT),
                Col(s_main, Album, ArtistId, INTEGER)>>
TrackCols(schema) ==
    <<Col(schema, Track, TrackId, INTEGER), Col(schema, Track, AlbumId, INTEGER)>>

AlbumArtist   == FK(s_main, Album, ArtistId, s_main, Artist, ArtistId)
TrackAlbum(s) == FK(s, Track, AlbumId, s_main, Album, AlbumId)
TrackGhost    == FK(s_main, Track, TrackId, s_main, Ghost, TrackId)

\* The backends the model is run against.  Columns are listed in the order
\* the backend reports them, which is not the order of the table names.
Catalogs ==
    { [cols |-> ArtistCols \o AlbumCols,                    fks |-> <<>>],
      [cols |-> ArtistCols \o AlbumCols,                    fks |-> <<AlbumArtist>>],
      [cols |-> TrackCols(s_main) \o ArtistCols \o AlbumCols,
       fks  |-> <<AlbumArtist, TrackAlbum(s_main)>>],
      [cols |-> TrackCols(s_main) \o ArtistCols \o AlbumCols,
       fks  |-> <<AlbumArtist, TrackGhost>>],
      [cols |-> TrackCols(s_aux) \o ArtistCols \o AlbumCols,
       fks  |-> <<AlbumArtist, TrackAlbum(s_aux)>>] }

Dialects == {"sqlite", "mysql"}

Map(seq, Op(_)) == [i \in 1..Len(seq) |-> Op(seq[i])]

\* queries['system']['schema_no_system']: rows (schema, table, column, type).
\* SQLite reads the metatable tmp_dbpy_schema and reports the literal 'public'.
SchemaQuery(d, cat) ==
    IF d = "sqlite"
    THEN Map(cat.cols, LAMBDA c : <<s_public, c.table, c.column, c.type>>)
    ELSE Map(cat.cols, LAMBDA c : <<c.schema, c.table, c.column, c.type>>)

\* queries['system']['foreign_keys_for_table'].format(table=, table_schema=):
\* rows (column_name, foreign_table_schema, foreign_table, foreign_column)
ForeignKeysForTable(d, cat, table, table_schema) ==
    IF d = "sqlite"
    THEN Map(SelectSeq(cat.fks, LAMBDA k : k.table = table),
             LAMBDA k : <<k.column, s_public, k.ftable, k.fcolumn>>)
    ELSE Map(SelectSeq(cat.fks, LAMBDA k : k.table = table /\ k.schema = table_schema),
             LAMBDA k : <<k.column, k.fschema, k.ftable, k.fcolumn>>)

\* queries['system']['ref_keys_for_table'].format(table=, table_schema=):
\* rows (column_name, ref_schema, ref_table, ref_column).  SQLite reports the
\* literal 'schema'; MySQL compares table_schema, the schema of the
\* referencing table, with the schema of the table asked about.
RefKeysForTable(d, cat, table, table_schema) ==
    IF d = "sqlite"
    THEN Map(SelectSeq(cat.fks, LAMBDA k : k.ftable = table),
             LAMBDA k : <<k.fcolumn, s_schema, k.table, k.column>>)
    ELSE Map(SelectSeq(cat.fks, LAMBDA k : k.ftable = table /\ k.schema = table_schema),
             LAMBDA k : <<k.fcolumn, k.schema, k.table, k.column>>)

\* MySQL only: queries['system']['foreign_keys_for_db'] and ['ref_keys_for_db']
ForeignKeysForDb(cat) ==
    Map(cat.fks, LAMBDA k : <<k.column, k.fschema, k.ftable, k.fcolumn>>)

RefKeysForDb(cat) ==
    Map(cat.fks, LAMBDA k : <<k.fcolumn, k.schema, k.table, k.column>>)

----------------------------------------------------------------------------
(* Column and Table objects *)

\* Column.__init__
NewColumn(schema, table, name, dtype) ==
    [schema |-> schema, table |-> table, name |-> name, type |-> dtype,
     foreign_keys |-> <<>>, ref_keys |-> <<>>]

\* the attribute under which Table.__init__ stores a column
AttrName(tname, cname) ==
    IF cname \in {s_name, s_con, s_count} THEN tname \o <<"_">> \o cname ELSE cname

\* Instance attributes that hold Columns, in the order of vars(table): a list
\* of [attr, col].  setattr on an existing attribute replaces its value.
HasAttr(attrs, a) == \E i \in 1..Len(attrs) : attrs[i].attr = a

GetAttr(attrs, a) == attrs[CHOOSE i \in 1..Len(attrs) : attrs[i].attr = a].col

SetAttr(attrs, a, c) ==
    IF HasAttr(attrs, a)
    THEN [i \in 1..Len(attrs) |-> IF attrs[i].attr = a THEN [attr |-> a, col |-> c] ELSE attrs[i]]
    ELSE Append(attrs, [attr |-> a, col |-> c])

RECURSIVE SetColumnAttrs(_, _, _, _)
SetColumnAttrs(attrs, tname, heap, cols) ==
    IF cols = <<>> THEN attrs
    ELSE SetColumnAttrs(SetAttr(attrs, AttrName(tname, heap[Head(cols)].name), Head(cols)),
                        tname, heap, Tail(cols))

\* Table.__init__ up to the first key query: the fields and one attribute per column
NewTable(heap, schema, name, cols) ==
    [schema |-> schema, name |-> name, cols |-> cols,
     attrs |-> SetColumnAttrs(<<>>, name, heap, cols),
     foreign_keys |-> <<>>, ref_keys |-> <<>>]

\* One of the two loops of Table.__init__ over key rows: each row is unpacked
\* into four fields, the local column is looked up by getattr (an attribute
\* that is missing, or that is not a Column and so has no .type, raises), and
\* a Column carrying the row's schema, table and column and the local
\* column's type is appended to the Table's list and to the local column's.
\* kind is "foreign_keys" or "ref_keys".  The result is the heap, the Table
\* and whether the loop completed.
RECURSIVE AttachKeys(_, _, _, _)
AttachKeys(heap, tbl, kind, rows) ==
    IF rows = <<>> THEN [ok |-> TRUE, heap |-> heap, tbl |-> tbl]
    ELSE LET row == Head(rows) IN
         IF Len(row) # 4 \/ ~HasAttr(tbl.attrs, row[1])
         THEN [ok |-> FALSE, heap |-> heap, tbl |-> tbl]
         ELSE LET c   == GetAttr(tbl.attrs, row[1])
                  key == NewColumn(row[2], row[3], row[4], heap[c].type)
              IN  AttachKeys([heap EXCEPT ![c][kind] = Append(@, key)],
                             [tbl EXCEPT ![kind] = Append(@, key)],
                             kind, Tail(rows))

----------------------------------------------------------------------------
(* DB.refresh_schema *)

MaxRefresh == 3

\* what the catalog queries of the dialect read: SQLite has no catalog of its
\* own, its queries read the temporary tables filled by _create_sqlite_metatable
Backend == IF dialect = "sqlite" THEN metatable ELSE catalog

\* the value of everything reachable from a list of Tables
TableValue(theap, cheap, t) ==
    [schema       |-> theap[t].schema,
     name         |-> theap[t].name,
     columns      |-> Map(theap[t].cols, LAMBDA c : cheap[c]),
     attrs        |-> Map(theap[t].attrs, LAMBDA a : [attr |-> a.attr, col |-> cheap[a.col]]),
     foreign_keys |-> theap[t].foreign_keys,
     ref_keys     |-> theap[t].ref_keys]

SnapshotValue(theap, cheap, tids) == Map(tids, LAMBDA t : TableValue(theap, cheap, t))

\* the value of everything reachable from TableSet ts
Snapshot(ts) == SnapshotValue(tables, columns, tablesets[ts])

\* ColumnsForRows that keeps the Column object a previous refresh made for the
\* same table and column name instead of creating a new one
ColumnsForRows_reusing(heap, rows) ==
    [heap |-> heap \o Map(rows, LAMBDA r : NewColumn(r[1], r[2], r[3], r[4])),
     ids  |-> [i \in 1..Len(rows) |->
                 IF \E j \in 1..Len(heap) : heap[j].table = rows[i][2] /\ heap[j].name = rows[i][3]
                 THEN CHOOSE j \in 1..Len(heap) :
                          heap[j].table = rows[i][2] /\ heap[j].name = rows[i][3]
                 ELSE Len(heap) + i]]

\* the loop over the rows of the schema query: one new Column per row.
\* The result is the heap and, per row, the identity of its Column.
ColumnsForRows(heap, rows) ==
    [heap |-> heap \o Map(rows, LAMBDA r : NewColumn(r[1], r[2], r[3], r[4])),
     ids  |-> [i \in 1..Len(rows) |-> Len(heap) + i]]

\* the grouping that keeps only the first Column of a table
GroupOf_first_only(rows, ids, name) ==
    IF \E i \in 1..Len(rows) : rows[i][2] = name
    THEN <<ids[CHOOSE i \in 1..Len(rows) :
                   rows[i][2] = name /\ \A j \in 1..(i - 1) : rows[j][2] # name]>>
    ELSE <<>>

\* tables[table_name].append(...): the Columns of one table, in row order
RECURSIVE GroupOf(_, _, _)
GroupOf(rows, ids, name) ==
    IF rows = <<>> THEN <<>>
    ELSE (IF Head(rows)[2] = name THEN <<Head(ids)>> ELSE <<>>)
         \o GroupOf(Tail(rows), Tail(ids), name)

\* the table names in descending order
RECURSIVE Sorted_descending(_)
Sorted_descending(S) ==
    IF S = {} THEN <<>>
    ELSE LET m == CHOOSE x \in S : \A y \in S \ {x} : StrLess(y, x)
         IN  <<m>> \o Sorted_descending(S \ {m})

\* tables.keys(): the table names of the rows
TableNamesOf(rows) == {rows[i][2] : i \in 1..Len(rows)}

\* the schema a Table is constructed with: that of the first Column grouped
\* under its name
FirstSchema(rows, name) ==
    rows[CHOOSE i \in 1..Len(rows) :
            rows[i][2] = name /\ \A j \in 1..(i - 1) : rows[j][2] # name][1]

\* sorted(tables.keys())
RECURSIVE Sorted(_)
Sorted(S) ==
    IF S = {} THEN <<>>
    ELSE LET m == CHOOSE x \in S : \A y \in S \ {x} : StrLess(x, y)
         IN  <<m>> \o Sorted(S \ {m})

\* Publish that replaces the list inside the TableSet DB.tables already refers to
Publish_in_place(tsheap, built) ==
    [tsheap |-> [tsheap EXCEPT ![Len(tsheap)] = built], ref |-> Len(tsheap)]

\* self.tables = TableSet([...]): a new TableSet, and the reference to it
Publish(tsheap, built) ==
    [tsheap |-> Append(tsheap, built), ref |-> Len(tsheap) + 1]

NoLoc == [rows |-> <<>>, ids |-> <<>>, order |-> <<>>, i |-> 0, built |-> <<>>,
          base_c |-> 0, base_t |-> 0]

\* no resolution has been made yet
NoResult == [set |-> FALSE, ok |-> FALSE, value |-> <<>>]

NoRes == [perTable |-> NoResult, batched |-> NoResult, cached |-> NoResult]

\* refresh_schema has not been called yet
NoPre == [ref |-> 0, value |-> <<>>, catalog |-> [cols |-> <<>>, fks |-> <<>>]]

NoFind == [op |-> "none", search |-> <<>>, data_type |-> [kind |-> "none", v |-> <<>>],
           result |-> <<>>]

Outcome(status, at, rows) == [status |-> status, at |-> at, rows |-> rows]

\* the DB object exists: its constructor, which ends with the first refresh, returned
Constructed == nrefresh >= 2 \/ (nrefresh = 1 /\ outcome.status = "ok")

CanRefresh == pc = "idle" /\ nrefresh < MaxRefresh /\ (nrefresh = 0 \/ Constructed)

\* an exception leaves refresh_schema: its locals and the objects only they
\* reference are gone, DB.tables is not assigned
Raise(at) ==
    /\ pc' = "idle"
    /\ loc' = NoLoc
    /\ outcome' = Outcome("raised", at, loc.rows)
    /\ columns' = SubSeq(columns, 1, loc.base_c)
    /\ tables' = SubSeq(tables, 1, loc.base_t)
    /\ UNCHANGED <<dialect, catalog, metatable, tablesets, db_tables, pre, published,
                   held, found, nrefresh, res, sessionVars>>

\* refresh_schema is called and its schema query returns rows: the Columns are
\* built and grouped by table name
RefreshSchema ==
    /\ CanRefresh
    /\ LET rows == SchemaQuery(dialect, Backend)
           made == ColumnsForRows(columns, rows)
       IN  /\ \A i \in 1..Len(rows) : Len(rows[i]) = 4
           /\ columns' = made.heap
           /\ loc' = [rows |-> rows, ids |-> made.ids,
                      order |-> Sorted(TableNamesOf(rows)),
                      i |-> 1, built |-> <<>>,
                      base_c |-> Len(columns), base_t |-> Len(tables)]
           /\ pc' = IF rows = <<>> THEN "publish" ELSE "fk"
    /\ nrefresh' = nrefresh + 1
    /\ outcome' = Outcome("none", "", <<>>)
    /\ pre' = [ref |-> db_tables, value |-> Snapshot(db_tables), catalog |-> catalog]
    /\ found' = NoFind
    /\ UNCHANGED <<dialect, catalog, metatable, tables, tablesets, db_tables,
                   published, held, res, sessionVars>>

\* refresh_schema is called and its schema query fails
RefreshSchemaFails ==
    /\ CanRefresh
    /\ nrefresh' = nrefresh + 1
    /\ outcome' = Outcome("raised", "schema query", <<>>)
    /\ pre' = [ref |-> db_tables, value |-> Snapshot(db_tables), catalog |-> catalog]
    /\ found' = NoFind
    /\ UNCHANGED <<dialect, catalog, metatable, columns, tables, tablesets, db_tables,
                   pc, loc, published, held, res, sessionVars>>

\* Table.__init__ of the next table name, through its foreign-key loop
TableForeignKeys ==
    /\ pc = "fk"
    /\ LET name   == loc.order[loc.i]
           cols   == GroupOf(loc.rows, loc.ids, name)
           schema == FirstSchema(loc.rows, name)
           r      == AttachKeys(columns, NewTable(columns, schema, name, cols), "foreign_keys",
                                ForeignKeysForTable(dialect, Backend, name, schema))
       IN  IF r.ok
           THEN /\ columns' = r.heap
                /\ tables' = Append(tables, r.tbl)
                /\ pc' = "ref"
                /\ UNCHANGED <<dialect, catalog, metatable, tablesets, db_tables, loc,
                               outcome, pre, published, held, found, nrefresh, res, sessionVars>>
           ELSE Raise("foreign-key loop")

\* Table.__init__ of the same table, from its ref-key query to its end
TableRefKeys ==
    /\ pc = "ref"
    /\ LET t == Len(tables)
           r == AttachKeys(columns, tables[t], "ref_keys",
                           RefKeysForTable(dialect, Backend, tables[t].name, tables[t].schema))
       IN  IF r.ok
           THEN /\ columns' = r.heap
                /\ tables' = [tables EXCEPT ![t] = r.tbl]
                /\ loc' = [loc EXCEPT !.built = Append(@, t), !.i = @ + 1]
                /\ pc' = IF loc.i = Len(loc.order) THEN "publish" ELSE "fk"
                /\ UNCHANGED <<dialect, catalog, metatable, tablesets, db_tables,
                               outcome, pre, published, held, found, nrefresh, res, sessionVars>>
           ELSE Raise("ref-key loop")

\* the key query about to be executed fails
CatalogQueryFails ==
    /\ pc \in {"fk", "ref"}
    /\ Raise(IF pc = "fk" THEN "foreign-key query" ELSE "ref-key query")

\* self.tables = TableSet([...])
PublishSnapshot ==
    /\ pc = "publish"
    /\ LET p == Publish(tablesets, loc.built)
       IN  /\ tablesets' = p.tsheap
           /\ db_tables' = p.ref
           /\ published' = [i \in 1..Len(p.tsheap) |->
                               IF i <= Len(published) THEN published[i]
                               ELSE SnapshotValue(tables, columns, p.tsheap[i])]
    /\ pc' = "idle"
    /\ loc' = NoLoc
    /\ outcome' = Outcome("ok", "", loc.rows)
    /\ UNCHANGED <<dialect, catalog, metatable, columns, tables, pre, held, found,
                   nrefresh, res, sessionVars>>

\* catalog c has everything catalog b has, and more
Extends(c, b) ==
    /\ c # b
    /\ \A i \in 1..Len(b.cols) : \E j \in 1..Len(c.cols) : c.cols[j] = b.cols[i]
    /\ \A i \in 1..Len(b.fks) : \E j \in 1..Len(c.fks) : c.fks[j] = b.fks[i]

\* another client of the backend adds tables, columns or constraints
AlterCatalog ==
    /\ nrefresh >= 1
    /\ \E c \in Catalogs : Extends(c, catalog) /\ catalog' = c
    /\ UNCHANGED <<dialect, metatable, columns, tables, tablesets, db_tables, pc, loc,
                   outcome, pre, published, held, found, nrefresh, res, sessionVars>>

\* a reader takes DB.tables
ReadTables ==
    /\ Constructed
    /\ held # db_tables
    /\ held' = db_tables
    /\ UNCHANGED <<dialect, catalog, metatable, columns, tables, tablesets, db_tables,
                   pc, loc, outcome, pre, published, found, nrefresh, res, sessionVars>>

----------------------------------------------------------------------------
(* DB.find_table and DB.find_column *)

\* the glob patterns the searches are called with
PatA     == <<"A", "*">>
PatAll   == <<"*">>
PatZ     == <<"Z", "*">>
PatLower == <<"a", "*">>
PatRack  == <<"?", "r", "a", "c", "k">>
PatClass == <<"[", "A", "T", "]", "r", "*">>
PatId    == <<"*", "I", "d">>
PatName  == <<"n", "a", "m", "e">>

TablePatterns  == {PatA, PatAll, PatZ, PatLower, PatRack, PatClass}
ColumnPatterns == {PatA, PatAll, PatId, PatName}

\* the data_type argument of find_column: None, one string, or a list of strings
DataTypes ==
    { [kind |-> "none", v |-> <<>>],
      [kind |-> "str",  v |-> INTEGER],
      [kind |-> "list", v |-> <<TEXT, INTEGER>>] }

\* find_table: the Tables of self.tables, in order, whose name matches
FindTableResult(tsheap, theap, ts, search) ==
    SelectSeq(tsheap[ts], LAMBDA t : fnmatch(theap[t].name, search))

\* if isinstance(data_type, str): data_type = [data_type]
TypeList(data_type) ==
    IF data_type.kind = "str" THEN <<data_type.v>> ELSE data_type.v

\* find_column, the loop over vars(table) of one Table: the pattern is matched
\* against the attribute names; attributes that are not Columns are skipped,
\* and so are Columns whose type is not in a non-empty data_type
ColumnsOfTableMatching(cheap, tbl, search, types) ==
    Map(SelectSeq(tbl.attrs,
                  LAMBDA a : /\ fnmatch(a.attr, search)
                             /\ \/ types = <<>>
                                \/ \E i \in 1..Len(types) : types[i] = cheap[a.col].type),
        LAMBDA a : a.col)

RECURSIVE FindColumnOver(_, _, _, _, _)
FindColumnOver(theap, cheap, tids, search, types) ==
    IF tids = <<>> THEN <<>>
    ELSE ColumnsOfTableMatching(cheap, theap[Head(tids)], search, types)
         \o FindColumnOver(theap, cheap, Tail(tids), search, types)

FindColumnResult(tsheap, theap, cheap, ts, search, data_type) ==
    FindColumnOver(theap, cheap, tsheap[ts], search, TypeList(data_type))

FindTable ==
    /\ Constructed
    /\ pc = "idle"
    /\ found.op = "none"
    /\ \E search \in TablePatterns :
          found' = [op |-> "find_table", search |-> search,
                    data_type |-> [kind |-> "none", v |-> <<>>],
                    result |-> FindTableResult(tablesets, tables, db_tables, search)]
    /\ UNCHANGED <<dialect, catalog, metatable, columns, tables, tablesets, db_tables,
                   pc, loc, outcome, pre, published, held, nrefresh, res, sessionVars>>

FindColumn ==
    /\ Constructed
    /\ pc = "idle"
    /\ found.op = "none"
    /\ \E search \in ColumnPatterns, data_type \in DataTypes :
          found' = [op |-> "find_column", search |-> search, data_type |-> data_type,
                    result |-> FindColumnResult(tablesets, tables, columns, db_tables,
                                                search, data_type)]
    /\ UNCHANGED <<dialect, catalog, metatable, columns, tables, tablesets, db_tables,
                   pc, loc, outcome, pre, published, held, nrefresh, res, sessionVars>>

\* Python's None and a value that is not None
None    == [some |-> FALSE, v |-> <<>>]
Some(x) == [some |-> TRUE, v |-> x]

\* an int that is not None; v is a sequence for every kind of value
SomeInt(n) == Some(<<n>>)

\* the fields load_credentials and the else branch of DB.__init__ assign
Fields(username, password, hostname, port, filename, dbname, dbtype, schemas, limit, kpc) ==
    [username |-> username, password |-> password, hostname |-> hostname, port |-> port,
     filename |-> filename, dbname |-> dbname, dbtype |-> dbtype, schemas |-> schemas,
     limit |-> limit, keys_per_column |-> kpc]

NoFields == Fields(None, None, None, None, None, None, None, None, None, None)

\* Table construction on its own, connecting, the profile store and querying
\* are not exercised by the refresh: no Table built, an empty home directory,
\* no DB object, no connection, no call made
NoBuilt == [set |-> FALSE, ok |-> FALSE, heap |-> <<>>, ns |-> <<>>]

NoGiven == [foreign_keys |-> None, ref_keys |-> None]

NoCached == [set |-> FALSE, ok |-> FALSE, heap |-> <<>>, ns |-> <<>>, queries |-> <<>>,
             given |-> NoGiven]

NoCtor == [first |-> NoBuilt, second |-> NoBuilt, cached |-> NoCached]

NoDb == [made |-> FALSE, fields |-> NoFields, snapshot |-> <<>>]

NoCall == [op |-> "none", arg |-> <<>>, entry |-> None, before |-> {}]

NoRet == [op |-> "none", arg |-> <<>>, args |-> None, status |-> "none", error |-> "",
          opened |-> FALSE, made |-> FALSE, before |-> {}, after |-> {}, entry |-> None,
          same |-> TRUE, n |-> 0, prev |-> NoCall]

NoQry == [args     |-> [q |-> <<>>, given |-> FALSE, data |-> [kind |-> "None", v |-> <<>>],
                       union |-> TRUE, limit |-> None],
          direct   |-> [set |-> FALSE, status |-> "none", executed |-> <<>>],
          file     |-> [set |-> FALSE, status |-> "none", executed |-> <<>>]]

\* no catalog query was issued
NoListing == [set |-> FALSE, key |-> "", exclude |-> FALSE, status |-> "none", rows |-> <<>>]

NoIssued == [listing |-> NoListing, todo |-> <<>>, log |-> <<>>]

\* no Column was made and none was asked for its values
NoColq == [gen |-> "", status |-> "none", cols |-> <<>>,
           call |-> [set |-> FALSE, col |-> 0, method |-> "", status |-> "none",
                     templates |-> "", con |-> ""]]

\* no to_redshift call was made
NoUpload == [pc |-> "none", args |-> [nchunks |-> 0, drop |-> FALSE, s3_bucket |-> FALSE],
             bucket |-> "", workers |-> <<>>, joined |-> 0, commands |-> <<>>,
             buckets |-> {}, objects |-> {}, before |-> {}, result |-> "none"]

SessionIdle ==
    /\ ctor = NoCtor
    /\ home = {}
    /\ db = NoDb
    /\ con = <<>>
    /\ ret = NoRet
    /\ qry = NoQry
    /\ issued = NoIssued
    /\ upload = NoUpload
    /\ colq = NoColq

Init ==
    /\ dialect \in Dialects
    /\ catalog \in Catalogs
    /\ metatable = catalog
    /\ columns = <<>>
    /\ tables = <<>>
    /\ tablesets = << <<>> >>
    /\ db_tables = 1
    /\ pc = "idle"
    /\ loc = NoLoc
    /\ outcome = Outcome("none", "", <<>>)
    /\ pre = NoPre
    /\ published = << <<>> >>
    /\ held = 0
    /\ found = NoFind
    /\ nrefresh = 0
    /\ res = NoRes
    /\ SessionIdle

Next ==
    \/ RefreshSchema
    \/ RefreshSchemaFails
    \/ TableForeignKeys
    \/ TableRefKeys
    \/ CatalogQueryFails
    \/ PublishSnapshot
    \/ AlterCatalog
    \/ ReadTables
    \/ FindTable
    \/ FindColumn

Spec == Init /\ [][Next]_vars

----------------------------------------------------------------------------
(* Resolution of a whole snapshot as a function of its row sources: per table *)
(* from the catalog, batched from the catalog, and from a serialized snapshot *)

\* the list comprehension of refresh_schema run to its end on empty heaps:
\* one Table per name of order, built from the Columns made for rows, with the
\* key rows fks[name] and refs[name] and the schema schemas[name]
RECURSIVE BuildTables(_, _, _, _, _, _, _, _)
BuildTables(theap, cheap, rows, ids, order, schemas, fks, refs) ==
    IF order = <<>> THEN [ok |-> TRUE, theap |-> theap, cheap |-> cheap]
    ELSE LET name == Head(order)
             cols == GroupOf(rows, ids, name)
             r1   == AttachKeys(cheap, NewTable(cheap, schemas[name], name, cols),
                                "foreign_keys", fks[name])
             r2   == AttachKeys(r1.heap, r1.tbl, "ref_keys", refs[name])
         IN  IF r1.ok /\ r2.ok
             THEN BuildTables(Append(theap, r2.tbl), r2.heap, rows, ids, Tail(order),
                              schemas, fks, refs)
             ELSE [ok |-> FALSE, theap |-> theap, cheap |-> cheap]

Resolve(rows, schemas, fks, refs) ==
    LET made  == ColumnsForRows(<<>>, rows)
        order == Sorted(TableNamesOf(rows))
        b     == BuildTables(<<>>, made.heap, rows, made.ids, order, schemas, fks, refs)
    IN  [set |-> TRUE, ok |-> b.ok,
         value |-> IF b.ok
                   THEN SnapshotValue(b.theap, b.cheap, [i \in 1..Len(b.theap) |-> i])
                   ELSE <<>>]

\* per-table mode: each Table issues its own two key queries
ResolvePerTable(d, cat) ==
    LET rows    == SchemaQuery(d, cat)
        schemas == [n \in TableNamesOf(rows) |-> FirstSchema(rows, n)]
    IN  Resolve(rows, schemas,
                [n \in TableNamesOf(rows) |-> ForeignKeysForTable(d, cat, n, schemas[n])],
                [n \in TableNamesOf(rows) |-> RefKeysForTable(d, cat, n, schemas[n])])

\* batched mode: each whole-database key query is issued once and its rows are
\* put into per-table buckets by the table name the row carries
Bucket(rows, name) == SelectSeq(rows, LAMBDA r : r[3] = name)

ResolveBatched(d, cat) ==
    LET rows    == SchemaQuery(d, cat)
        schemas == [n \in TableNamesOf(rows) |-> FirstSchema(rows, n)]
    IN  Resolve(rows, schemas,
                [n \in TableNamesOf(rows) |-> Bucket(ForeignKeysForDb(cat), n)],
                [n \in TableNamesOf(rows) |-> Bucket(RefKeysForDb(cat), n)])

\* Column.to_dict
ColumnToDict(c) == [schema |-> c.schema, table |-> c.table, name |-> c.name, type |-> c.type]

\* ColumnSet.to_dict: the list under 'columns'
ColumnSetToDict(cs) == Map(cs, ColumnToDict)

\* Table.to_dict
TableToDict(t) ==
    [schema       |-> t.schema,
     name         |-> t.name,
     columns      |-> Map(t.columns, ColumnToDict),
     foreign_keys |-> ColumnSetToDict(t.foreign_keys),
     ref_keys     |-> ColumnSetToDict(t.ref_keys)]

\* TableSet.to_dict: the list under 'tables'
TableSetToDict(snapshot) == Map(snapshot, TableToDict)

\* The forms in which a stored key entry, a dict with the keys schema, table,
\* name and type, can reach the four-field unpacking of Table.__init__:
\* iterating a dict yields its keys, in insertion order or, before Python 3.7,
\* in an order of the interpreter's choosing; a loader that makes a tuple of
\* the entry hands over its values.
KeyForms ==
    { <<"keys", <<s_schema, s_table, s_name, s_type>> >>,
      <<"keys", <<s_name, s_table, s_schema, s_type>> >>,
      <<"keys", <<s_type, s_name, s_table, s_schema>> >>,
      <<"values", <<>> >> }

KeyRowOf(entry, form) ==
    IF form[1] = "keys" THEN form[2]
    ELSE <<entry.schema, entry.table, entry.name, entry.type>>

RECURSIVE Flatten(_)
Flatten(seqs) == IF seqs = <<>> THEN <<>> ELSE Head(seqs) \o Flatten(Tail(seqs))

\* cache mode: the stored columns are the row source, and each Table is given
\* the stored key entries of its cache entry as its foreign_keys and ref_keys
ResolveFromCache(stored, form) ==
    LET rows  == Flatten(Map(stored, LAMBDA t :
                     Map(t.columns, LAMBDA c : <<c.schema, c.table, c.name, c.type>>)))
        entry(n) == stored[CHOOSE i \in 1..Len(stored) : stored[i].name = n]
    IN  Resolve(rows,
                [n \in TableNamesOf(rows) |-> entry(n).schema],
                [n \in TableNamesOf(rows) |->
                    Map(entry(n).foreign_keys, LAMBDA e : KeyRowOf(e, form))],
                [n \in TableNamesOf(rows) |->
                    Map(entry(n).ref_keys, LAMBDA e : KeyRowOf(e, form))])

RECURSIVE SubSeqsOf(_)
SubSeqsOf(seq) ==
    IF seq = <<>> THEN {<<>>}
    ELSE LET rest == SubSeqsOf(Tail(seq))
         IN  rest \cup {<<Head(seq)>> \o r : r \in rest}

\* the catalogs the three resolutions are compared on
ResolveCatalogs ==
    Catalogs
    \cup { [cols |-> TrackCols(s_main) \o ArtistCols \o AlbumCols, fks |-> f] :
             f \in SubSeqsOf(<<AlbumArtist, TrackAlbum(s_main), TrackGhost>>) }
    \cup { [cols |-> TrackCols(s_aux) \o ArtistCols \o AlbumCols, fks |-> f] :
             f \in SubSeqsOf(<<AlbumArtist, TrackAlbum(s_aux)>>) }

ResolveFrame ==
    UNCHANGED <<dialect, catalog, metatable, columns, tables, tablesets, db_tables,
                pc, loc, outcome, pre, published, held, found, nrefresh, sessionVars>>

DoResolvePerTable ==
    /\ ~res.perTable.set
    /\ res' = [res EXCEPT !.perTable = ResolvePerTable(dialect, catalog)]
    /\ ResolveFrame

\* only MySQL has foreign_keys_for_db and ref_keys_for_db
DoResolveBatched ==
    /\ dialect = "mysql"
    /\ ~res.batched.set
    /\ res' = [res EXCEPT !.batched = ResolveBatched(dialect, catalog)]
    /\ ResolveFrame

\* the snapshot resolved from the catalog is serialized and resolved again
DoResolveFromCache ==
    /\ res.perTable.set
    /\ res.perTable.ok
    /\ ~res.cached.set
    /\ \E form \in KeyForms :
          res' = [res EXCEPT !.cached =
                     ResolveFromCache(TableSetToDict(res.perTable.value), form)]
    /\ ResolveFrame

InitResolve ==
    /\ dialect \in Dialects
    /\ catalog \in ResolveCatalogs
    /\ metatable = catalog
    /\ columns = <<>>
    /\ tables = <<>>
    /\ tablesets = << <<>> >>
    /\ db_tables = 1
    /\ pc = "idle"
    /\ loc = NoLoc
    /\ outcome = Outcome("none", "", <<>>)
    /\ pre = NoPre
    /\ published = << <<>> >>
    /\ held = 0
    /\ found = NoFind
    /\ nrefresh = 0
    /\ res = NoRes
    /\ SessionIdle

NextResolve ==
    \/ DoResolvePerTable
    \/ DoResolveBatched
    \/ DoResolveFromCache

SpecResolve == InitResolve /\ [][NextResolve]_vars

\* C6: for a schema with at least one foreign key, the snapshot resolved from
\* the serialized form of the catalog-resolved snapshot is resolved without
\* error and has the same tables, columns, types, foreign_keys and ref_keys,
\* so both serialize to the same value
C6_CacheRoundTrip ==
    (res.cached.set /\ \E i \in 1..Len(res.perTable.value) :
                           res.perTable.value[i].foreign_keys # <<>>) =>
        /\ res.cached.ok
        /\ res.cached.value = res.perTable.value
        /\ TableSetToDict(res.cached.value) = TableSetToDict(res.perTable.value)

\* C7: on MySQL the batched resolution and the per-table resolution of the
\* same catalog end alike and give Tables with identical columns,
\* foreign_keys and ref_keys
C7_BatchedEqualsPerTable ==
    (res.batched.set /\ res.perTable.set) =>
        /\ res.batched.ok = res.perTable.ok
        /\ res.batched.value = res.perTable.value

----------------------------------------------------------------------------
(* Properties of the refresh *)

\* the Tables and the owned Columns of the published snapshot
PublishedTables == {tablesets[db_tables][i] : i \in 1..Len(tablesets[db_tables])}

OwnedColumns(t) == {tables[t].cols[i] : i \in 1..Len(tables[t].cols)}

Range(seq) == {seq[i] : i \in 1..Len(seq)}

\* C1: when a refresh raised (its schema query, a foreign-key query or a
\* ref-key query failed, or a key loop raised), DB.tables is the TableSet it
\* was when the refresh was called, and everything reachable from it (the
\* Tables, their Columns, the foreign_keys and ref_keys lists) is unchanged.
C1_FailedRefreshKeepsSnapshot ==
    outcome.status = "raised" =>
        /\ db_tables = pre.ref
        /\ Snapshot(db_tables) = pre.value

\* a refresh over a published snapshot that has key relationships raised in
\* the ref-key query of a table whose foreign-key query had succeeded
C1_Witness ==
    /\ outcome.status = "raised"
    /\ outcome.at = "ref-key query"
    /\ nrefresh >= 2
    /\ \E t \in PublishedTables : tables[t].ref_keys # <<>>
    /\ \E t \in PublishedTables : tables[t].foreign_keys # <<>>

\* C2: whatever a reader holds from DB.tables, at any step of a refresh, is a
\* snapshot as it was published: DB.tables changes only by the assignment of a
\* complete new TableSet, and nothing reachable from a published TableSet is
\* ever modified.
C2_ReaderSeesPublishedSnapshot ==
    [][ /\ held' # 0 => /\ held' \in 1..Len(published')
                        /\ Snapshot(held)' = published'[held']
        /\ Snapshot(db_tables)' = published'[db_tables']
        /\ db_tables' # db_tables =>
              /\ pc = "publish"
              /\ Len(tablesets'[db_tables']) = Len(loc.order)
              /\ \A t \in Range(tablesets'[db_tables']) : t > loc.base_t
              /\ \A t \in Range(tablesets'[db_tables']) :
                    \A c \in Range(tables'[t].cols) : c > loc.base_c ]_vars

\* a reader holds the previous snapshot, which has key relationships, while a
\* later refresh has already attached keys to the Tables it is building
C2_Witness ==
    /\ pc = "ref"
    /\ held = db_tables
    /\ \E t \in PublishedTables : tables[t].ref_keys # <<>>
    /\ Len(tables) > loc.base_t
    /\ tables[Len(tables)].foreign_keys # <<>>

\* C8: after a successful refresh the table names of DB.tables are strictly
\* increasing in code point order (so pairwise distinct and lexicographic),
\* and the column names of each Table are, in order, the column names of the
\* schema query's rows for that table name.  The snapshot's order is thus a
\* function of the rows alone, the same for any two refreshes that get the
\* same rows.
C8_DeterministicOrder ==
    outcome.status = "ok" =>
        LET ts == tablesets[db_tables] IN
        /\ \A i \in 1..(Len(ts) - 1) : StrLess(tables[ts[i]].name, tables[ts[i + 1]].name)
        /\ \A i \in 1..Len(ts) :
              Map(tables[ts[i]].cols, LAMBDA c : columns[c].name)
                = Map(SelectSeq(outcome.rows, LAMBDA r : r[2] = tables[ts[i]].name),
                      LAMBDA r : r[3])
        /\ {tables[t].name : t \in PublishedTables} = {r[2] : r \in Range(outcome.rows)}

\* a second refresh succeeded on a catalog that reports Track's columns first
C8_Witness ==
    /\ outcome.status = "ok"
    /\ nrefresh >= 2
    /\ Len(tablesets[db_tables]) = 3
    /\ outcome.rows[1][2] = Track
    /\ tables[tablesets[db_tables][1]].name = Album
    /\ Len(tables[tablesets[db_tables][1]].cols) = 3

----------------------------------------------------------------------------
(* Properties of the key relationships *)

KeysOf(c) == Range(columns[c].foreign_keys) \cup Range(columns[c].ref_keys)

\* C3: for every entry of A.a.foreign_keys naming B.b, the published snapshot
\* has a Table B with a Column b whose ref_keys has an entry naming A.a
C3_Symmetry ==
    \A A \in PublishedTables : \A a \in OwnedColumns(A) :
        \A f \in Range(columns[a].foreign_keys) :
            \E B \in PublishedTables : \E b \in OwnedColumns(B) :
                /\ tables[B].name = f.table
                /\ columns[b].name = f.name
                /\ \E r \in Range(columns[b].ref_keys) :
                      r.table = tables[A].name /\ r.name = columns[a].name

\* C4: every Column in a foreign_keys or ref_keys list of the published
\* snapshot has the schema, table name and column name of a Column owned by
\* a Table of that snapshot
C4_KeysReferenceSnapshotColumns ==
    \A T \in PublishedTables : \A c \in OwnedColumns(T) : \A k \in KeysOf(c) :
        \E T2 \in PublishedTables : \E c2 \in OwnedColumns(T2) :
            /\ columns[c2].schema = k.schema
            /\ columns[c2].table = k.table
            /\ columns[c2].name = k.name

\* C5: a refresh whose key rows name a column that is not among the columns
\* it resolved does not succeed: after a successful refresh every key entry
\* names a table and column that the snapshot has
C5_DanglingKeyFailsRefresh ==
    outcome.status = "ok" =>
        \A T \in PublishedTables : \A c \in OwnedColumns(T) : \A k \in KeysOf(c) :
            \E T2 \in PublishedTables : \E c2 \in OwnedColumns(T2) :
                tables[T2].name = k.table /\ columns[c2].name = k.name

----------------------------------------------------------------------------
(* Properties of the searches *)

\* what each pattern of the model denotes, stated without the matcher
Denotes(pat, name) ==
    CASE pat = PatA     -> Len(name) >= 1 /\ name[1] = "A"
      [] pat = PatAll   -> TRUE
      [] pat = PatZ     -> Len(name) >= 1 /\ name[1] = "Z"
      [] pat = PatLower -> Len(name) >= 1 /\ name[1] = "a"
      [] pat = PatRack  -> Len(name) = 5 /\ SubSeq(name, 2, 5) = <<"r", "a", "c", "k">>
      [] pat = PatClass -> Len(name) >= 2 /\ name[1] \in {"A", "T"} /\ name[2] = "r"
      [] pat = PatId    -> Len(name) >= 2 /\ SubSeq(name, Len(name) - 1, Len(name)) = <<"I", "d">>
      [] pat = PatName  -> name = <<"n", "a", "m", "e">>

\* C9: find_table returns exactly the Tables of the published snapshot whose
\* name the pattern denotes, case-sensitively, each once and in snapshot
\* order; with no such Table the result is empty
C9_FindTable ==
    found.op = "find_table" =>
        found.result = SelectSeq(tablesets[db_tables],
                                 LAMBDA t : Denotes(found.search, tables[t].name))

\* "A*" over Album, Artist and Track found exactly Album and Artist
C9_Witness ==
    /\ found.op = "find_table"
    /\ found.search = PatA
    /\ {tables[t].name : t \in PublishedTables} = {Album, Artist, Track}
    /\ Map(found.result, LAMBDA t : tables[t].name) = <<Album, Artist>>

\* C10: find_column returns exactly the Columns owned by the Tables of the
\* published snapshot whose column name the pattern denotes and, when
\* data_type is given, whose type is one of the given strings
C10_FindColumn ==
    found.op = "find_column" =>
        /\ Range(found.result) =
              {c \in UNION {OwnedColumns(t) : t \in PublishedTables} :
                  /\ Denotes(found.search, columns[c].name)
                  /\ CASE found.data_type.kind = "none" -> TRUE
                       [] found.data_type.kind = "str"  -> columns[c].type = found.data_type.v
                       [] found.data_type.kind = "list" ->
                              columns[c].type \in Range(found.data_type.v)}
        /\ Cardinality(Range(found.result)) = Len(found.result)

----------------------------------------------------------------------------
(* Table.__init__ with the whole attribute namespace of the Table.           *)
(* NewTable and AttachKeys above follow the attributes that hold Columns;    *)
(* here every attribute of the instance and of the class is followed, so     *)
(* that a column named like one of them is seen to replace it or not.        *)

s_head             == <<"h", "e", "a", "d">>
s_all              == <<"a", "l", "l">>
s_select           == <<"s", "e", "l", "e", "c", "t">>
s_unique           == <<"u", "n", "i", "q", "u", "e">>
s_sample           == <<"s", "a", "m", "p", "l", "e">>
s_to_dict          == <<"t", "o", "_", "d", "i", "c", "t">>
s_foreign_keys     == <<"f", "o", "r", "e", "i", "g", "n", "_", "k", "e", "y", "s">>
s_ref_keys         == <<"r", "e", "f", "_", "k", "e", "y", "s">>
s_keys_per_column  == <<"k", "e", "y", "s", "_", "p", "e", "r", "_", "c", "o", "l", "u", "m", "n">>
s_u_con            == <<"_", "c", "o", "n">>
s_u_cur            == <<"_", "c", "u", "r">>
s_u_columns        == <<"_", "c", "o", "l", "u", "m", "n", "s">>
s_u_query_templates ==
    <<"_", "q", "u", "e", "r", "y", "_", "t", "e", "m", "p", "l", "a", "t", "e", "s">>

\* the public methods and the property of class Table
ClassMethods == {s_head, s_all, s_select, s_unique, s_sample, s_to_dict}

ClassProperties == {s_count}

\* attribute values, by what they are
StrVal(s)      == [kind |-> "str", v |-> s]
ColVal(c)      == [kind |-> "Column", v |-> <<c>>]
ListVal(items) == [kind |-> "list", v |-> items]
ColumnSetVal(items) == [kind |-> "ColumnSet", v |-> items]
ObjVal         == [kind |-> "object", v |-> <<>>]
MethodVal      == [kind |-> "method", v |-> <<>>]
IntVal         == [kind |-> "int", v |-> <<>>]
MissingVal     == [kind |-> "missing", v |-> <<>>]

\* the instance dictionary is a list of [attr, val] in order of first assignment
NsHas(ns, a) == \E i \in 1..Len(ns) : ns[i].attr = a

NsGet(ns, a) == ns[CHOOSE i \in 1..Len(ns) : ns[i].attr = a].val

NsSet(ns, a, v) ==
    IF NsHas(ns, a)
    THEN [i \in 1..Len(ns) |-> IF ns[i].attr = a THEN [attr |-> a, val |-> v] ELSE ns[i]]
    ELSE Append(ns, [attr |-> a, val |-> v])

\* getattr(self, a): a property of the class is evaluated (count is an int),
\* then the instance dictionary, then the methods of the class
GetAttrOf(ns, a) ==
    IF a \in ClassProperties THEN IntVal
    ELSE IF NsHas(ns, a) THEN NsGet(ns, a)
    ELSE IF a \in ClassMethods THEN MethodVal
    ELSE MissingVal

\* setattr(self, a, v): a property without a setter raises AttributeError
SetAttrOf(ns, a, v) ==
    IF a \in ClassProperties THEN [ok |-> FALSE, ns |-> ns]
    ELSE [ok |-> TRUE, ns |-> NsSet(ns, a, v)]

\* the assignments of Table.__init__ before the loop over cols
InitialNamespace(schema, name, cols) ==
    << [attr |-> s_schema,            val |-> StrVal(schema)],
       [attr |-> s_name,              val |-> StrVal(name)],
       [attr |-> s_u_con,             val |-> ObjVal],
       [attr |-> s_u_cur,             val |-> ObjVal],
       [attr |-> s_u_query_templates, val |-> ObjVal],
       [attr |-> s_foreign_keys,      val |-> ListVal(<<>>)],
       [attr |-> s_ref_keys,          val |-> ListVal(<<>>)],
       [attr |-> s_keys_per_column,   val |-> ObjVal],
       [attr |-> s_u_columns,         val |-> ListVal(cols)] >>

\* for col in cols: setattr(self, attr, col), attr renamed by AttrName
RECURSIVE SetColumns(_, _, _, _)
SetColumns(ns, tname, heap, cols) ==
    IF cols = <<>> THEN [ok |-> TRUE, ns |-> ns]
    ELSE LET r == SetAttrOf(ns, AttrName(tname, heap[Head(cols)].name), ColVal(Head(cols)))
         IN  IF r.ok THEN SetColumns(r.ns, tname, heap, Tail(cols)) ELSE r

\* what str.format puts into a query for an attribute value: the string
\* itself, or the repr of the object, which is the name of nothing
ReprOf(val) == IF val.kind = "str" THEN val.v ELSE <<"<", "o", "b", "j", "e", "c", "t", ">">>

KindAttr(kind) == IF kind = "foreign_keys" THEN s_foreign_keys ELSE s_ref_keys

\* the key loop that appends the stub to the Table's list only
RECURSIVE KeyLoop_table_only(_, _, _, _)
KeyLoop_table_only(heap, ns, kind, rows) ==
    IF rows = <<>> THEN [ok |-> TRUE, heap |-> heap, ns |-> ns]
    ELSE LET row == Head(rows) IN
         IF Len(row) # 4 THEN [ok |-> FALSE, heap |-> heap, ns |-> ns]
         ELSE LET col == GetAttrOf(ns, row[1])
                  lst == GetAttrOf(ns, KindAttr(kind))
              IN  IF col.kind # "Column" \/ lst.kind # "list"
                  THEN [ok |-> FALSE, heap |-> heap, ns |-> ns]
                  ELSE LET c   == col.v[1]
                           key == NewColumn(row[2], row[3], row[4], heap[c].type)
                           ns1 == NsSet(ns, KindAttr(kind), ListVal(Append(lst.v, key)))
                           r   == SetAttrOf(ns1, row[1], col)
                       IN  IF r.ok
                           THEN KeyLoop_table_only(heap, r.ns, kind, Tail(rows))
                           ELSE [ok |-> FALSE, heap |-> heap, ns |-> ns]

\* one of the two loops over key rows: getattr(self, column_name) must give
\* an object with .type, self.foreign_keys (self.ref_keys) one with .append
RECURSIVE KeyLoop(_, _, _, _)
KeyLoop(heap, ns, kind, rows) ==
    IF rows = <<>> THEN [ok |-> TRUE, heap |-> heap, ns |-> ns]
    ELSE LET row == Head(rows) IN
         IF Len(row) # 4 THEN [ok |-> FALSE, heap |-> heap, ns |-> ns]
         ELSE LET col == GetAttrOf(ns, row[1])
                  lst == GetAttrOf(ns, KindAttr(kind))
              IN  IF col.kind # "Column" \/ lst.kind # "list"
                  THEN [ok |-> FALSE, heap |-> heap, ns |-> ns]
                  ELSE LET c   == col.v[1]
                           key == NewColumn(row[2], row[3], row[4], heap[c].type)
                           ns1 == NsSet(ns, KindAttr(kind), ListVal(Append(lst.v, key)))
                           r   == SetAttrOf(ns1, row[1], col)
                       IN  IF r.ok
                           THEN KeyLoop([heap EXCEPT ![c][kind] = Append(@, key)],
                                        r.ns, kind, Tail(rows))
                           ELSE [ok |-> FALSE, heap |-> heap, ns |-> ns]

\* self.foreign_keys = ColumnSet(self.foreign_keys): ColumnSet.__init__
\* iterates over its argument
WrapColumnSet(ns, kind) ==
    LET lst == GetAttrOf(ns, KindAttr(kind))
    IN  IF lst.kind = "list"
        THEN [ok |-> TRUE, ns |-> NsSet(ns, KindAttr(kind), ColumnSetVal(lst.v))]
        ELSE [ok |-> FALSE, ns |-> ns]

Built(ok, heap, ns) == [set |-> TRUE, ok |-> ok, heap |-> heap, ns |-> ns]

\* the rows a key loop iterates over, whatever was supplied
KeyRowsFor_queried(supplied, queried) == queried

\* if not isinstance(foreign_keys, list): the cursor of the key query;
\* otherwise the list that was supplied
KeyRowsFor(supplied, queried) == IF supplied.some THEN supplied.v ELSE queried

\* the key query that is executed for a key kind, if any
QueriesFor(supplied, kind) == IF supplied.some THEN <<>> ELSE <<kind>>

BuiltFrom(ok, heap, ns, queries, given) ==
    [set |-> TRUE, ok |-> ok, heap |-> heap, ns |-> ns, queries |-> queries, given |-> given]

\* Table.__init__ from its first line to its last, with its parameters
\* foreign_keys and ref_keys (None, or a list of key tuples) and the key
\* queries it executes
TableInitFrom(d, cat, heap, schema, name, cols, given) ==
    LET s1 == SetColumns(InitialNamespace(schema, name, cols), name, heap, cols)
    IN  IF ~s1.ok THEN BuiltFrom(FALSE, heap, s1.ns, <<>>, given)
        ELSE
        LET q1 == QueriesFor(given.foreign_keys, "foreign_keys")
            fk == KeyLoop(heap, s1.ns, "foreign_keys",
                          KeyRowsFor(given.foreign_keys,
                              ForeignKeysForTable(d, cat, ReprOf(GetAttrOf(s1.ns, s_name)),
                                                  ReprOf(GetAttrOf(s1.ns, s_schema)))))
        IN  IF ~fk.ok THEN BuiltFrom(FALSE, fk.heap, fk.ns, q1, given)
            ELSE
            LET w1 == WrapColumnSet(fk.ns, "foreign_keys")
            IN  IF ~w1.ok THEN BuiltFrom(FALSE, fk.heap, w1.ns, q1, given)
                ELSE
                LET q2 == q1 \o QueriesFor(given.ref_keys, "ref_keys")
                    rk == KeyLoop(fk.heap, w1.ns, "ref_keys",
                                  KeyRowsFor(given.ref_keys,
                                      RefKeysForTable(d, cat, ReprOf(GetAttrOf(w1.ns, s_name)),
                                                      ReprOf(GetAttrOf(w1.ns, s_schema)))))
                IN  IF ~rk.ok THEN BuiltFrom(FALSE, rk.heap, rk.ns, q2, given)
                    ELSE LET w2 == WrapColumnSet(rk.ns, "ref_keys")
                         IN  BuiltFrom(w2.ok, rk.heap, w2.ns, q2, given)

\* Table.__init__ called without foreign_keys and ref_keys, as refresh_schema
\* calls it
TableInit(d, cat, heap, schema, name, cols) ==
    LET b == TableInitFrom(d, cat, heap, schema, name, cols, NoGiven)
    IN  Built(b.ok, b.heap, b.ns)

\* refresh_schema for the one table of the catalog: its Columns, then its Table
IntrospectTable(d, cat) ==
    LET rows == SchemaQuery(d, cat)
        made == ColumnsForRows(<<>>, rows)
        name == rows[1][2]
    IN  TableInit(d, cat, made.heap, FirstSchema(rows, name), name,
                  GroupOf(rows, made.ids, name))

\* Backends of one table, Artist, whose first column has the name of an
\* attribute of the Table; the columns have foreign keys, or are referenced by
\* some, or neither; key rows come in an order that is not that of the columns.
FirstColumnNames == {ArtistId, s_name, s_con, s_count, s_schema, s_head, s_foreign_keys}

TableKeyChoices(c1, c2) ==
    { <<>>,
      << FK(s_main, Artist, c1, s_main, Album, AlbumId) >>,
      << FK(s_main, Artist, c2, s_main, Album, Title) >>,
      << FK(s_main, Album, ArtistId, s_main, Artist, c1) >>,
      << FK(s_main, Artist, c2, s_main, Album, Title),
         FK(s_main, Artist, c1, s_main, Album, AlbumId) >>,
      << FK(s_main, Artist, c1, s_main, Album, AlbumId),
         FK(s_main, Artist, c1, s_main, Track, AlbumId) >>,
      << FK(s_main, Album, ArtistId, s_main, Artist, c2),
         FK(s_main, Track, TrackId, s_main, Artist, c1) >> }

TableCatalogs ==
    UNION { { [cols |-> <<Col(s_main, Artist, c1, INTEGER), Col(s_main, Artist, c2, TEXT)>>,
               fks  |-> f] : f \in TableKeyChoices(c1, c2) } :
            c1 \in FirstColumnNames, c2 \in {Title, s_name} }

SessionFrame == UNCHANGED <<home, db, con, ret, qry, issued, upload, colq>>

\* the Table is constructed
ConstructTable ==
    /\ ~ctor.first.set
    /\ ctor' = [ctor EXCEPT !.first = IntrospectTable(dialect, catalog)]
    /\ UNCHANGED refreshVars
    /\ SessionFrame

\* the Table is constructed again by the next introspection
ConstructTableAgain ==
    /\ ctor.first.set
    /\ ~ctor.second.set
    /\ ctor' = [ctor EXCEPT !.second = IntrospectTable(dialect, catalog)]
    /\ UNCHANGED refreshVars
    /\ SessionFrame

\* key tuples a caller supplies for the one table of the catalog: none
\* (None), an empty list, a tuple the catalog does not have
SuppliedKeys(cat) ==
    { None, Some(<<>>), Some(<< <<cat.cols[2].column, s_aux, Ghost, TrackId>> >>) }

\* the Table is constructed from the listing rows with key tuples supplied
\* by the caller
ConstructTableFromLists ==
    /\ ~ctor.cached.set
    /\ \E f \in SuppliedKeys(catalog), r \in SuppliedKeys(catalog) :
          LET rows == SchemaQuery(dialect, catalog)
              made == ColumnsForRows(<<>>, rows)
              name == rows[1][2]
          IN  ctor' = [ctor EXCEPT !.cached =
                         TableInitFrom(dialect, catalog, made.heap, FirstSchema(rows, name),
                                       name, GroupOf(rows, made.ids, name),
                                       [foreign_keys |-> f, ref_keys |-> r])]
    /\ UNCHANGED refreshVars
    /\ SessionFrame

InitTable ==
    /\ dialect \in Dialects
    /\ catalog \in {c \in TableCatalogs : c.cols[1].column # c.cols[2].column}
    /\ metatable = catalog
    /\ columns = <<>>
    /\ tables = <<>>
    /\ tablesets = << <<>> >>
    /\ db_tables = 1
    /\ pc = "idle"
    /\ loc = NoLoc
    /\ outcome = Outcome("none", "", <<>>)
    /\ pre = NoPre
    /\ published = << <<>> >>
    /\ held = 0
    /\ found = NoFind
    /\ nrefresh = 0
    /\ res = NoRes
    /\ SessionIdle

NextTable ==
    \/ ConstructTable
    \/ ConstructTableAgain
    \/ ConstructTableFromLists

SpecTable == InitTable /\ [][NextTable]_vars

\* the names the Table itself answers to
ReservedAccessors == {s_name, s_schema, s_count, s_head, s_foreign_keys}

\* what each accessor is on a Table none of whose columns has its name
AccessorKind(a) ==
    CASE a \in {s_name, s_schema} -> "str"
      [] a = s_count               -> "int"
      [] a = s_head                -> "method"
      [] a = s_foreign_keys        -> "ColumnSet"

\* the Table b built from catalog.cols handles the column named c as required
HandlesReserved(b, c) ==
    /\ b.ok
    /\ GetAttrOf(b.ns, c.column).kind = AccessorKind(c.column)
    /\ LET v == GetAttrOf(b.ns, c.table \o <<"_">> \o c.column)
       IN  /\ v.kind = "Column"
           /\ b.heap[v.v[1]].name = c.column
           /\ Len(b.heap[v.v[1]].foreign_keys) =
                 Cardinality({i \in 1..Len(catalog.fks) :
                                 /\ catalog.fks[i].table = c.table
                                 /\ catalog.fks[i].column = c.column})
           /\ Len(b.heap[v.v[1]].ref_keys) =
                 Cardinality({i \in 1..Len(catalog.fks) :
                                 /\ catalog.fks[i].ftable = c.table
                                 /\ catalog.fks[i].fcolumn = c.column})

\* C11: a column whose name is a reserved accessor name of the Table never
\* makes Table construction raise, leaves the accessor what it was, is
\* reachable under the attribute <table name>_<column name>, the same on every
\* re-introspection, and has the key rows that name it attached to it.
C11_ReservedColumnRenamed ==
    \A i \in 1..Len(catalog.cols) :
        catalog.cols[i].column \in ReservedAccessors =>
            /\ ctor.first.set => HandlesReserved(ctor.first, catalog.cols[i])
            /\ ctor.second.set =>
                  /\ HandlesReserved(ctor.second, catalog.cols[i])
                  /\ Map(ctor.second.ns, LAMBDA e : e.attr) = Map(ctor.first.ns, LAMBDA e : e.attr)

----------------------------------------------------------------------------
(* Properties of the life of the snapshot *)

\* C12: the snapshot is empty when the DB object is created and stays empty,
\* with no schema query issued, until DB.tables is first read, searched, or a
\* refresh is requested explicitly.  The first call of refresh_schema is the
\* one the constructor makes.
C12_LazySnapshot ==
    (nrefresh <= 1 /\ held = 0 /\ found.op = "none") =>
        (nrefresh = 0 /\ tablesets[db_tables] = <<>>)

\* table and column of a column row of the backend are in the published snapshot
InPublished(c) ==
    \E t \in PublishedTables :
        /\ tables[t].name = c.table
        /\ \E k \in OwnedColumns(t) : columns[k].name = c.column

\* C13: after a successful refresh_schema the published snapshot contains
\* every table and column the backend had when the refresh was called, for
\* every dialect.
C13_RefreshSeesNewTables ==
    (pc = "idle" /\ outcome.status = "ok") =>
        \A i \in 1..Len(pre.catalog.cols) : InPublished(pre.catalog.cols[i])

----------------------------------------------------------------------------
(* DB.__init__ up to the connection, load_credentials, save_credentials,     *)
(* list_profiles and remove_profile.  The home directory is a set of files;  *)
(* a profile file holds the JSON object save_credentials wrote.              *)

\* bool(x) of an optional string
Truthy(x) == x.some /\ x.v # <<>>

t_sqlite   == <<"s", "q", "l", "i", "t", "e">>
t_mysql    == <<"m", "y", "s", "q", "l">>
t_postgres == <<"p", "o", "s", "t", "g", "r", "e", "s">>
t_redshift == <<"r", "e", "d", "s", "h", "i", "f", "t">>
t_mssql    == <<"m", "s", "s", "q", "l">>
t_oracle   == <<"o", "r", "a", "c", "l", "e">>

\* the keys of queries_templates
SupportedTypes == {t_mysql, t_postgres, t_redshift, t_sqlite, t_mssql}

s_localhost == <<"l", "o", "c", "a", "l", "h", "o", "s", "t">>
s_kermit    == <<"k", "e", "r", "m", "i", "t">>

ProfileP == <<"p">>
ProfileQ == <<"q">>

\* ".db.py_" and the "s3_" that follows it in the file of an S3 profile
ProfilePrefix == <<".", "d", "b", ".", "p", "y", "_">>
S3Infix       == <<"s", "3", "_">>

\* the process's working directory, and a relative and an absolute file name
Cwd          == <<"/", "w">>
RelativeFile == <<"f", ".", "d", "b">>
AbsoluteFile == <<"/", "d", "/", "f", ".", "d", "b">>

\* os.path.join(a, b) on POSIX
JoinPath_always_under(a, b) == a \o <<"/">> \o b

JoinPath(a, b) == IF b # <<>> /\ b[1] = "/" THEN b ELSE a \o <<"/">> \o b

\* the file a path names for this process
FileOf(path) == JoinPath(Cwd, path)

StartsWith(f, prefix) == Len(f) >= Len(prefix) /\ SubSeq(f, 1, Len(prefix)) = prefix

\* JSON values: json.dumps of None, of a str, of an int, of a list
JsonOf(x, t) == IF x.some THEN [t |-> t, v |-> x.v] ELSE [t |-> "null", v |-> <<>>]

\* json.loads of a JSON value
OfJson(j) == IF j.t = "null" THEN None ELSE Some(j.v)

\* the creds dict of save_credentials as a JSON object
CredsJson(f, db_filename) ==
    [username |-> JsonOf(f.username, "string"), password |-> JsonOf(f.password, "string"),
     hostname |-> JsonOf(f.hostname, "string"), port |-> JsonOf(f.port, "number"),
     filename |-> JsonOf(db_filename, "string"), dbname |-> JsonOf(f.dbname, "string"),
     dbtype |-> JsonOf(f.dbtype, "string"), schemas |-> JsonOf(f.schemas, "array"),
     limit |-> JsonOf(f.limit, "number"),
     keys_per_column |-> JsonOf(f.keys_per_column, "number")]

\* a file of the home directory: its name, whose profile it is ("db", "s3",
\* or "other" for a file that is no profile), the JSON object in it, the
\* serialized snapshot stored with it, and the fields of the DB object that
\* wrote it
File(name, kind, creds, cache, by) ==
    [file |-> name, kind |-> kind, creds |-> creds, cache |-> cache, by |-> by]

HasFile(h, name) == \E g \in h : g.file = name

GetFile(h, name) == CHOOSE g \in h : g.file = name

\* creds.get(key) for each key: a JSON object without the key gives None
CredsGet(g) ==
    IF g.kind = "db"
    THEN Fields(OfJson(g.creds.username), OfJson(g.creds.password), OfJson(g.creds.hostname),
                OfJson(g.creds.port), OfJson(g.creds.filename), OfJson(g.creds.dbname),
                OfJson(g.creds.dbtype), OfJson(g.creds.schemas), OfJson(g.creds.limit),
                OfJson(g.creds.keys_per_column))
    ELSE NoFields

Raised(error) == [ok |-> FALSE, error |-> error, fields |-> NoFields]

\* load_credentials that leaves the limit the constructor was given
LoadCredentials_keeps_limit(h, profile) ==
    IF ~profile.some THEN Raised("TypeError")
    ELSE IF HasFile(h, ProfilePrefix \o profile.v)
         THEN [ok |-> TRUE, error |-> "",
               fields |-> [CredsGet(GetFile(h, ProfilePrefix \o profile.v))
                              EXCEPT !.limit = SomeInt(1000)]]
         ELSE Raised("Credentials not configured!")

\* load_credentials that takes a missing profile for an empty one
LoadCredentials_missing_is_empty(h, profile) ==
    IF ~profile.some THEN Raised("TypeError")
    ELSE IF HasFile(h, ProfilePrefix \o profile.v)
         THEN [ok |-> TRUE, error |-> "",
               fields |-> CredsGet(GetFile(h, ProfilePrefix \o profile.v))]
         ELSE [ok |-> TRUE, error |-> "", fields |-> NoFields]

\* DB.load_credentials(profile)
LoadCredentials(h, profile) ==
    IF ~profile.some THEN Raised("TypeError")
    ELSE IF HasFile(h, ProfilePrefix \o profile.v)
         THEN [ok |-> TRUE, error |-> "",
               fields |-> CredsGet(GetFile(h, ProfilePrefix \o profile.v))]
         ELSE Raised("Credentials not configured!")

\* the arguments of DB(): those the calls vary, the others at their defaults
\* (password None, hostname "localhost", dbname None, schemas None,
\* keys_per_column None)
Args(username, port, filename, dbtype, profile, limit) ==
    [username |-> username, password |-> None, hostname |-> Some(s_localhost),
     port |-> port, filename |-> filename, dbname |-> None, dbtype |-> dbtype,
     schemas |-> None, profile |-> profile, limit |-> limit, keys_per_column |-> None]

\* DB(profile=p): every other argument at its default
OnlyProfile(p) == Args(None, None, None, None, Some(p), SomeInt(1000))

\* the first statement of DB.__init__: the default port of the dbtype
PortOf(a) ==
    IF a.port.some THEN [ok |-> TRUE, port |-> a.port]
    ELSE CASE a.dbtype = Some(t_postgres) -> [ok |-> TRUE, port |-> SomeInt(5432)]
           [] a.dbtype = Some(t_redshift) -> [ok |-> TRUE, port |-> SomeInt(5439)]
           [] a.dbtype = Some(t_mysql)    -> [ok |-> TRUE, port |-> SomeInt(3306)]
           [] a.dbtype = Some(t_sqlite)   -> [ok |-> TRUE, port |-> None]
           [] a.dbtype = Some(t_mssql)    -> [ok |-> TRUE, port |-> SomeInt(1433)]
           [] OTHER -> [ok |-> a.profile.some, port |-> None]

\* the conditions under which DB.__init__ calls load_credentials
TakesProfile(a) ==
    \/ (a.dbtype \notin {Some(t_sqlite), Some(t_mssql)} /\ ~a.username.some)
    \/ (a.dbtype = Some(t_sqlite) /\ ~a.filename.some)

\* the second statement: credentials from the profile or from the arguments
CredentialsOf(a, h, port) ==
    IF TakesProfile(a)
    THEN LoadCredentials(h, a.profile)
    ELSE [ok |-> TRUE, error |-> "",
          fields |-> Fields(a.username, a.password, a.hostname, port, a.filename,
                            a.dbname, a.dbtype, a.schemas, a.limit, a.keys_per_column)]

\* what the connect call of the dbtype is given
Target(f) ==
    IF f.dbtype = Some(t_sqlite)
    THEN [dbtype |-> t_sqlite, file |-> FileOf(f.filename.v), host |-> None, user |-> None]
    ELSE [dbtype |-> f.dbtype.v, file |-> <<>>, host |-> f.hostname, user |-> f.username]

\* DB.__init__ from its first statement to the connection.  up: the server
\* accepts the connection.  The result says whether a connection was opened
\* and whether the constructor went on to the refresh.
DBInit(a, h, up) ==
    LET p == PortOf(a) IN
    IF ~p.ok THEN [ok |-> FALSE, error |-> "Database type not specified!",
                   fields |-> NoFields, opened |-> FALSE]
    ELSE
    LET c == CredentialsOf(a, h, p.port) IN
    IF ~c.ok THEN [ok |-> FALSE, error |-> c.error, fields |-> NoFields, opened |-> FALSE]
    ELSE IF ~c.fields.dbtype.some
    THEN [ok |-> FALSE, error |-> "Database type not specified!",
          fields |-> c.fields, opened |-> FALSE]
    ELSE IF c.fields.dbtype.v \notin SupportedTypes
    THEN [ok |-> FALSE, error |-> "AttributeError", fields |-> c.fields, opened |-> FALSE]
    ELSE IF c.fields.dbtype.v = t_sqlite /\ ~c.fields.filename.some
    THEN [ok |-> FALSE, error |-> "TypeError", fields |-> c.fields, opened |-> FALSE]
    ELSE IF c.fields.dbtype.v # t_sqlite /\ ~up
    THEN [ok |-> FALSE, error |-> "OperationalError", fields |-> c.fields, opened |-> FALSE]
    ELSE [ok |-> TRUE, error |-> "", fields |-> c.fields, opened |-> TRUE]

\* the dialect of the catalog queries for a dbtype whose queries are followed
DialectOf(dbtype) == IF dbtype = t_sqlite THEN "sqlite" ELSE "mysql"

\* DB.save_credentials(profile): the file of the profile is rewritten
SaveCredentials(h, d, profile) ==
    LET db_filename == IF Truthy(d.fields.filename)
                       THEN Some(JoinPath(Cwd, d.fields.filename.v)) ELSE None
        name == ProfilePrefix \o profile
    IN  {g \in h : g.file # name}
        \cup {File(name, "db", CredsJson(d.fields, db_filename), None, d.fields)}

\* SaveProfile that adds the serialization to the one already stored
SaveProfile_appending(h, d, profile) ==
    LET name == ProfilePrefix \o profile
        g    == GetFile(SaveCredentials(h, d, profile), name)
        old  == IF HasFile(h, name) /\ GetFile(h, name).cache.some
                THEN GetFile(h, name).cache.v ELSE <<>>
    IN  {k \in h : k.file # name}
        \cup {[g EXCEPT !.cache = Some(old \o TableSetToDict(d.snapshot))]}

\* saving a profile with the snapshot: the credentials as save_credentials
\* writes them and, with them, the serialization of the current snapshot
SaveProfile(h, d, profile) ==
    LET name == ProfilePrefix \o profile
        g    == GetFile(SaveCredentials(h, d, profile), name)
    IN  {k \in h : k.file # name}
        \cup {[g EXCEPT !.cache = Some(TableSetToDict(d.snapshot))]}

\* list_profiles that takes f[6:] for f[7:]
ListProfiles_off_by_one(h) ==
    { [name |-> SubSeq(g.file, Len(ProfilePrefix), Len(g.file)), creds |-> g.creds] :
        g \in {k \in h : StartsWith(k.file, ProfilePrefix)} }

\* list_profiles(): the decoded content of every file whose name starts with
\* ".db.py_", under the rest of its name
ListProfiles(h) ==
    { [name |-> SubSeq(g.file, Len(ProfilePrefix) + 1, Len(g.file)), creds |-> g.creds] :
        g \in {k \in h : StartsWith(k.file, ProfilePrefix)} }

\* remove_profile(name, s3): the file is removed, or the call raises
RemoveProfile(h, name, s3) ==
    LET f == IF s3 THEN ProfilePrefix \o S3Infix \o name ELSE ProfilePrefix \o name
    IN  IF HasFile(h, f) THEN [ok |-> TRUE, home |-> {g \in h : g.file # f}]
        ELSE [ok |-> FALSE, home |-> h]

\* S3.save_credentials(profile): the file ".db.py_s3_" + profile is rewritten
\* with the access key and the secret key
S3SaveCredentials(h, profile) ==
    LET name == ProfilePrefix \o S3Infix \o profile
    IN  {g \in h : g.file # name}
        \cup {File(name, "s3", CredsJson(NoFields, None), None, NoFields)}

\* the home directory before the first call: an S3 profile and a file that is
\* no profile may be there.  The JSON object of an S3 profile has none of the
\* keys of a DB profile.
S3File    == File(ProfilePrefix \o S3Infix \o ProfileP, "s3", CredsJson(NoFields, None), None, NoFields)
OtherFile == File(<<".", "b", "a", "s", "h", "r", "c">>, "other", CredsJson(NoFields, None), None, NoFields)

Profiles == {ProfileP, ProfileQ}

\* the calls of DB() that are made: a SQLite file by a relative and by an
\* absolute name, a MySQL server with a user name, an unsupported dbtype or
\* none at all with a user name, each of those dbtypes with neither user name
\* nor file name, the profile alone, and no profile at all
ConnectArgs ==
    { Args(None, None, Some(RelativeFile), Some(t_sqlite), Some(ProfileP), SomeInt(1000)),
      Args(None, None, Some(AbsoluteFile), Some(t_sqlite), Some(ProfileP), None),
      Args(Some(s_kermit), None, None, Some(t_mysql), Some(ProfileP), SomeInt(1000)),
      Args(Some(s_kermit), None, None, Some(t_oracle), Some(ProfileP), SomeInt(1000)),
      Args(Some(s_kermit), None, None, None, Some(ProfileP), SomeInt(1000)),
      Args(None, None, None, Some(t_sqlite), Some(ProfileP), SomeInt(1000)),
      Args(None, None, None, Some(t_mysql), Some(ProfileP), SomeInt(1000)),
      Args(None, None, None, Some(t_oracle), Some(ProfileP), SomeInt(1000)),
      OnlyProfile(ProfileP),
      OnlyProfile(ProfileQ),
      Args(None, None, None, Some(t_mysql), None, SomeInt(1000)),
      Args(None, None, None, None, None, SomeInt(1000)) }

\* the backend every connection reaches
ConnectCatalog == [cols |-> ArtistCols \o AlbumCols, fks |-> <<AlbumArtist>>]

MaxCalls == 4

\* the record of a call: what list_profiles() gave before and after it, the
\* file it wrote, whether it left the home directory as it was, and the same
\* of the call before it
CallRet(op, arg, args, status, error, opened, made, h0, h1, entry) ==
    [op |-> op, arg |-> arg, args |-> args, status |-> status, error |-> error,
     opened |-> opened, made |-> made,
     before |-> ListProfiles(h0), after |-> ListProfiles(h1), entry |-> entry,
     same |-> (h0 = h1), n |-> ret.n + 1,
     prev |-> [op |-> ret.op, arg |-> ret.arg, entry |-> ret.entry, before |-> ret.before]]

\* DB(...): the constructor connects and ends with the first refresh
Connect ==
    /\ ret.n < MaxCalls
    /\ \E a \in ConnectArgs, up \in BOOLEAN :
          LET r    == DBInit(a, home, up)
              snap == IF r.ok
                      THEN ResolvePerTable(DialectOf(r.fields.dbtype.v), catalog)
                      ELSE NoResult
              good == r.ok /\ snap.ok
          IN  /\ db' = IF good
                       THEN [made |-> TRUE, fields |-> r.fields, snapshot |-> snap.value]
                       ELSE db
              /\ con' = IF r.opened THEN Append(con, Target(r.fields)) ELSE con
              /\ ret' = CallRet("connect", <<>>, Some(a), IF good THEN "ok" ELSE "raised",
                                IF r.ok /\ ~snap.ok THEN "refresh" ELSE r.error,
                                r.opened, good, home, home, None)
    /\ UNCHANGED <<refreshVars, colq, ctor, home, qry, issued, upload>>

\* db.save_credentials(profile=p)
SaveCredentialsCall ==
    /\ ret.n < MaxCalls
    /\ db.made
    /\ \E p \in Profiles :
          LET h == SaveCredentials(home, db, p)
          IN  /\ home' = h
              /\ ret' = CallRet("save_credentials", p, None, "ok", "", FALSE, FALSE,
                                home, h, Some(GetFile(h, ProfilePrefix \o p)))
    /\ UNCHANGED <<refreshVars, colq, ctor, db, con, qry, issued, upload>>

\* the profile is saved together with the snapshot
SaveProfileCall ==
    /\ ret.n < MaxCalls
    /\ db.made
    /\ \E p \in Profiles :
          LET h == SaveProfile(home, db, p)
          IN  /\ home' = h
              /\ ret' = CallRet("save_profile", p, None, "ok", "", FALSE, FALSE,
                                home, h, Some(GetFile(h, ProfilePrefix \o p)))
    /\ UNCHANGED <<refreshVars, colq, ctor, db, con, qry, issued, upload>>

\* S3(access_key, secret_key).save_credentials(profile=p)
S3SaveCredentialsCall ==
    /\ ret.n < MaxCalls
    /\ \E p \in {ProfileQ} :
          LET h == S3SaveCredentials(home, p)
          IN  /\ home' = h
              /\ ret' = CallRet("s3_save_credentials", p, None, "ok", "", FALSE, FALSE,
                                home, h, Some(GetFile(h, ProfilePrefix \o S3Infix \o p)))
    /\ UNCHANGED <<refreshVars, colq, ctor, db, con, qry, issued, upload>>

\* list_profiles()
ListProfilesCall ==
    /\ ret.n < MaxCalls
    /\ ret.op # "list_profiles"
    /\ ret' = CallRet("list_profiles", <<>>, None, "ok", "", FALSE, FALSE, home, home, None)
    /\ UNCHANGED <<refreshVars, colq, ctor, home, db, con, qry, issued, upload>>

\* remove_profile(name, s3)
RemoveProfileCall ==
    /\ ret.n < MaxCalls
    /\ \E name \in Profiles, s3 \in BOOLEAN :
          LET r == RemoveProfile(home, name, s3)
          IN  /\ home' = r.home
              /\ ret' = CallRet(IF s3 THEN "remove_s3_profile" ELSE "remove_profile", name,
                                None, IF r.ok THEN "ok" ELSE "raised",
                                IF r.ok THEN "" ELSE "Could not remove profile",
                                FALSE, FALSE, home, r.home, None)
    /\ UNCHANGED <<refreshVars, colq, ctor, db, con, qry, issued, upload>>

InitConnect ==
    /\ dialect = "sqlite"
    /\ catalog = ConnectCatalog
    /\ metatable = catalog
    /\ columns = <<>>
    /\ tables = <<>>
    /\ tablesets = << <<>> >>
    /\ db_tables = 1
    /\ pc = "idle"
    /\ loc = NoLoc
    /\ outcome = Outcome("none", "", <<>>)
    /\ pre = NoPre
    /\ published = << <<>> >>
    /\ held = 0
    /\ found = NoFind
    /\ nrefresh = 0
    /\ res = NoRes
    /\ ctor = NoCtor
    /\ home \in SUBSET {S3File, OtherFile}
    /\ db = NoDb
    /\ con = <<>>
    /\ ret = NoRet
    /\ qry = NoQry
    /\ issued = NoIssued
    /\ upload = NoUpload
    /\ colq = NoColq

NextConnect ==
    \/ Connect
    \/ SaveCredentialsCall
    \/ SaveProfileCall
    \/ S3SaveCredentialsCall
    \/ ListProfilesCall
    \/ RemoveProfileCall

SpecConnect == InitConnect /\ [][NextConnect]_vars

\* the backend kinds that have an entry in the dialect catalog
CatalogKinds ==
    { <<"m", "y", "s", "q", "l">>, <<"p", "o", "s", "t", "g", "r", "e", "s">>,
      <<"r", "e", "d", "s", "h", "i", "f", "t">>, <<"s", "q", "l", "i", "t", "e">>,
      <<"m", "s", "s", "q", "l">> }

\* the last call was DB(...) with no credentials of its own and a profile
\* whose file does not exist
ConnectedFromMissingProfile ==
    /\ ret.op = "connect"
    /\ ret.args.v.profile.some
    /\ ~ret.args.v.username.some
    /\ ~ret.args.v.filename.some
    /\ ~HasFile(home, <<".", "d", "b", ".", "p", "y", "_">> \o ret.args.v.profile.v)

\* C14: connecting with credentials taken from a profile whose file does not
\* exist fails with the profile error; no DB object is produced and no
\* connection is opened.
C14_MissingProfileFails ==
    ConnectedFromMissingProfile =>
        /\ ret.status = "raised"
        /\ ret.error = "Credentials not configured!"
        /\ ~ret.made
        /\ ~ret.opened

C14_Witness ==
    /\ ConnectedFromMissingProfile
    /\ ret.args.v.dbtype = Some(t_mysql)
    /\ ret.status = "raised"
    /\ db.made

\* C15: requesting a backend kind that has no entry in the dialect catalog
\* fails at connect time, before any connection is opened or any snapshot is
\* built.
C15_UnsupportedKindFails ==
    (/\ ret.op = "connect"
     /\ ret.args.v.dbtype.some
     /\ ret.args.v.dbtype.v \notin CatalogKinds) =>
        /\ ret.status = "raised"
        /\ ~ret.made
        /\ ~ret.opened

\* the names under which a listing of list_profiles() has entries
NamesOf(listing) == {e.name : e \in listing}

ConnectedFromSavedProfile(p) ==
    /\ ret.op = "connect"
    /\ ret.status = "ok"
    /\ ret.args = Some(OnlyProfile(p))
    /\ HasFile(home, <<".", "d", "b", ".", "p", "y", "_">> \o p)
    /\ GetFile(home, <<".", "d", "b", ".", "p", "y", "_">> \o p).kind = "db"

\* C17: after db.save_credentials(profile=p), a DB created with only
\* profile=p has the username, password, hostname, port, dbname, dbtype,
\* schemas, limit and keys_per_column of db, and for SQLite its filename
\* names the same file.
C17_CredentialsRoundTrip ==
    \A p \in Profiles :
        ConnectedFromSavedProfile(p) =>
            LET by == GetFile(home, <<".", "d", "b", ".", "p", "y", "_">> \o p).by
            IN  /\ db.fields.username = by.username
                /\ db.fields.password = by.password
                /\ db.fields.hostname = by.hostname
                /\ db.fields.port = by.port
                /\ db.fields.dbname = by.dbname
                /\ db.fields.dbtype = by.dbtype
                /\ db.fields.schemas = by.schemas
                /\ db.fields.limit = by.limit
                /\ db.fields.keys_per_column = by.keys_per_column
                /\ by.dbtype = Some(t_sqlite) =>
                      /\ db.fields.filename.some
                      /\ FileOf(db.fields.filename.v) = FileOf(by.filename.v)

C17_Witness ==
    /\ ConnectedFromSavedProfile(ProfileQ)
    /\ GetFile(home, ProfilePrefix \o ProfileQ).by.filename = Some(RelativeFile)
    /\ db.fields.filename # Some(RelativeFile)

----------------------------------------------------------------------------
(* DB.query and DB.query_from_file: the statement that is handed to          *)
(* read_sql, as text.                                                        *)

DigitChars == <<"0", "1", "2", "3", "4", "5", "6", "7", "8", "9">>

\* str(n) of a natural number
RECURSIVE Digits(_)
Digits(n) == IF n < 10 THEN <<DigitChars[n + 1]>>
             ELSE Digits(n \div 10) \o <<DigitChars[(n % 10) + 1]>>

\* q.rstrip(): trailing white space is removed
RECURSIVE RStrip(_)
RStrip(q) == IF q # <<>> /\ q[Len(q)] \in {" ", "\n"} THEN RStrip(SubSeq(q, 1, Len(q) - 1)) ELSE q

\* q.rstrip(";"): trailing semicolons are removed
RECURSIVE RStripSemicolon(_)
RStripSemicolon(q) ==
    IF q # <<>> /\ q[Len(q)] = ";" THEN RStripSemicolon(SubSeq(q, 1, Len(q) - 1)) ELSE q

EndsWith(q, suffix) ==
    Len(q) >= Len(suffix) /\ SubSeq(q, Len(q) - Len(suffix) + 1, Len(q)) = suffix

q_select_from == <<"s", "e", "l", "e", "c", "t", " ", "*", " ", "f", "r", "o", "m", " ", "(">>
q_q_limit     == <<")", " ", "q", " ", "l", "i", "m", "i", "t", " ">>
q_select_top  == <<"s", "e", "l", "e", "c", "t", " ", "t", "o", "p", " ">>
q_from        == <<" ", "*", " ", "f", "r", "o", "m", " ", "(">>
q_q           == <<")", " ", "q">>
q_union_all   == <<"\n", "U", "N", "I", "O", "N", " ", "A", "L", "L">>
q_newline     == <<"\n">>

\* int truthiness: 0 and False are the same value and both are false
IntTruthy(x) == x.some /\ x.v # <<0>>

\* DB._assign_limit(q, limit)
AssignLimit(d, q, limit) ==
    IF d.fields.dbtype.v \in {t_postgres, t_redshift, t_sqlite, t_mysql}
    THEN IF IntTruthy(limit)
         THEN q_select_from \o RStripSemicolon(RStrip(q)) \o q_q_limit \o Digits(limit.v[1])
         ELSE q
    ELSE IF IntTruthy(limit)
         THEN q_select_top \o Digits(limit.v[1]) \o q_from \o q \o q_q
         ELSE q

\* the data argument: None, a dict, a list of dicts, or (as query_from_file
\* passes it) an int.  A dict has the one key n.
NoData          == [kind |-> "None", v |-> <<>>]
DictData(item)  == [kind |-> "dict", v |-> <<item>>]
ListData(items) == [kind |-> "list", v |-> items]
IntData(n)      == [kind |-> "int", v |-> <<n>>]

\* bool(data)
DataTruthy(data) ==
    CASE data.kind = "None" -> FALSE
      [] data.kind = "int"  -> data.v # <<0>>
      [] OTHER              -> data.v # <<>>

q_hole == <<"{", "{", "n", "}", "}">>

\* template(item): every {{n}} of the template becomes item's n
RECURSIVE Render(_, _)
Render(template, item) ==
    IF template = <<>> THEN <<>>
    ELSE IF StartsWith(template, q_hole)
         THEN item \o Render(SubSeq(template, Len(q_hole) + 1, Len(template)), item)
         ELSE <<Head(template)>> \o Render(Tail(template), item)

\* sep.join(parts)
RECURSIVE Join(_, _)
Join(parts, sep) ==
    IF parts = <<>> THEN <<>>
    ELSE IF Len(parts) = 1 THEN parts[1]
    ELSE parts[1] \o sep \o Join(Tail(parts), sep)

\* DB._apply_handlebars(q, data, union)
ApplyHandlebars(q, data, union) ==
    CASE data.kind = "list" ->
             Join(Map(data.v, LAMBDA item : Render(q, item)),
                  IF union THEN q_union_all ELSE q_newline)
      [] data.kind = "dict" -> Render(q, data.v[1])
      [] OTHER -> q

Executed(text) == [set |-> TRUE, status |-> "ok", executed |-> text]

NotExecuted(error) == [set |-> TRUE, status |-> error, executed |-> <<>>]

NoExecution == [set |-> FALSE, status |-> "none", executed |-> <<>>]

\* DB.query(q, data, union, limit): the text given to read_sql
Query(d, q, data, union, limit) ==
    LET q1 == IF DataTruthy(data) THEN ApplyHandlebars(q, data, union) ELSE q
    IN  Executed(IF limit = SomeInt(0) THEN q1 ELSE AssignLimit(d, q1, limit))

\* DB.query_from_file(filename, data, union, limit): data has no default, and
\* self.query(q, limit) passes the limit as query's second parameter, data
QueryFromFile(d, contents, given, data, union, limit) ==
    IF ~given THEN NotExecuted("TypeError")
    ELSE LET q1 == IF DataTruthy(data) THEN ApplyHandlebars(contents, data, union)
                   ELSE contents
         IN  Query(d, q1, IF limit.some THEN IntData(limit.v[1]) ELSE NoData, TRUE, None)

\* the statements that are run: a plain one, one followed by white space, a
\* template
q_plain    == <<"s", "e", "l", "e", "c", "t", " ", "1", ";">>
q_spaced   == <<"s", "e", "l", "e", "c", "t", " ", "1", ";", " ", "\n">>
q_template == <<"s", "e", "l", "e", "c", "t", " ", "{", "{", "n", "}", "}">>

Statements == {q_plain, q_spaced, q_template}

DataChoices ==
    { NoData, DictData(<<"1">>), ListData(<<>>), ListData(<<<<"1">>, <<"2">>>>) }

\* limits a DB object has, and limits a call passes (None when it passes
\* none, 0 for False)
LimitChoices == {None, SomeInt(0), SomeInt(5), SomeInt(1000)}

\* the DB objects that are queried
QueriedDBs ==
    { [made |-> TRUE,
       fields |-> Fields(None, None, Some(s_localhost), None, None, None, Some(t),
                         None, l, None),
       snapshot |-> <<>>] :
        t \in {t_sqlite, t_mssql}, l \in {None, SomeInt(5), SomeInt(1000)} }

\* a call: the statement (the contents of the file), whether data is passed
\* at all, data, union, limit
Call(q, given, data, union, limit) ==
    [q |-> q, given |-> given, data |-> data, union |-> union, limit |-> limit]

NoCallArgs == Call(<<>>, FALSE, NoData, TRUE, None)

Calls ==
    { Call(q, g, data, u, l) :
        q \in Statements, g \in BOOLEAN, data \in DataChoices, u \in BOOLEAN,
        l \in LimitChoices }

\* db.query(q, data, union, limit)
QueryCall ==
    /\ qry.args # NoCallArgs
    /\ ~qry.direct.set
    /\ qry' = [qry EXCEPT !.direct = Query(db, qry.args.q, qry.args.data, qry.args.union,
                                           qry.args.limit)]
    /\ UNCHANGED <<refreshVars, colq, ctor, home, db, con, ret, issued, upload>>

\* db.query_from_file(filename, data, union, limit) on a file that holds q
QueryFromFileCall ==
    /\ qry.args # NoCallArgs
    /\ ~qry.file.set
    /\ qry' = [qry EXCEPT !.file = QueryFromFile(db, qry.args.q, qry.args.given,
                                                 qry.args.data, qry.args.union,
                                                 qry.args.limit)]
    /\ UNCHANGED <<refreshVars, colq, ctor, home, db, con, ret, issued, upload>>

InitQuery ==
    /\ dialect = "sqlite"
    /\ catalog = ConnectCatalog
    /\ metatable = catalog
    /\ columns = <<>>
    /\ tables = <<>>
    /\ tablesets = << <<>> >>
    /\ db_tables = 1
    /\ pc = "idle"
    /\ loc = NoLoc
    /\ outcome = Outcome("none", "", <<>>)
    /\ pre = NoPre
    /\ published = << <<>> >>
    /\ held = 0
    /\ found = NoFind
    /\ nrefresh = 0
    /\ res = NoRes
    /\ ctor = NoCtor
    /\ home = {}
    /\ db \in QueriedDBs
    /\ con = <<>>
    /\ ret = NoRet
    /\ issued = NoIssued
    /\ upload = NoUpload
    /\ colq = NoColq
    /\ qry \in { [args |-> c, direct |-> NoExecution, file |-> NoExecution] :
                   c \in {k \in Calls : k.given \/ k.data = NoData} }

NextQuery ==
    \/ QueryCall
    \/ QueryFromFileCall

SpecQuery == InitQuery /\ [][NextQuery]_vars

\* the statement is limited to n records in the way of the dbtype
IsLimitedTo(text, n) ==
    IF db.fields.dbtype.v = <<"m", "s", "s", "q", "l">>
    THEN /\ StartsWith(text, <<"s", "e", "l", "e", "c", "t", " ", "t", "o", "p", " ">>
                             \o Digits(n) \o <<" ">>)
         /\ EndsWith(text, <<")", " ", "q">>)
    ELSE /\ StartsWith(text, <<"s", "e", "l", "e", "c", "t", " ", "*", " ", "f", "r", "o", "m", " ", "(">>)
         /\ EndsWith(text, <<" ", "l", "i", "m", "i", "t", " ">> \o Digits(n))

\* C19: query called without a limit executes a statement limited to the
\* DB's default limit; a limit passed to query is the limit of the
\* statement; with a default of None and no limit passed the statement has no
\* limit.
C19_DefaultLimit ==
    (qry.direct.set /\ qry.args.limit # SomeInt(0)) =>
        LET eff == IF qry.args.limit.some THEN qry.args.limit ELSE db.fields.limit
        IN  IF eff.some
            THEN IsLimitedTo(qry.direct.executed, eff.v[1])
            ELSE \A n \in {5, 1000} : ~IsLimitedTo(qry.direct.executed, n)

\* C20: query_from_file(filename, data, union, limit) executes the statement
\* query(<contents of the file>, data, union, limit) executes, whatever
\* data, union and limit are, also when only the filename is passed.
C20_QueryFromFileIsQuery ==
    (qry.direct.set /\ qry.file.set) =>
        /\ qry.file.status = "ok"
        /\ qry.file.executed = qry.direct.executed

----------------------------------------------------------------------------
(* Properties of the key lists of a constructed Table *)

\* the rows the key query of the given kind returns for the Table b
KeyRowsOf(b, kind) ==
    IF kind = "foreign_keys"
    THEN ForeignKeysForTable(dialect, catalog, ReprOf(GetAttrOf(b.ns, s_name)),
                             ReprOf(GetAttrOf(b.ns, s_schema)))
    ELSE RefKeysForTable(dialect, catalog, ReprOf(GetAttrOf(b.ns, s_name)),
                         ReprOf(GetAttrOf(b.ns, s_schema)))

CountIn(seq, x) == Cardinality({i \in 1..Len(seq) : seq[i] = x})

\* the key lists of the Columns of b, one after the other
RECURSIVE ColumnKeys(_, _, _)
ColumnKeys(heap, cols, kind) ==
    IF cols = <<>> THEN <<>>
    ELSE heap[Head(cols)][kind] \o ColumnKeys(heap, Tail(cols), kind)

KeyListsAgree(b, kind) ==
    LET rows == KeyRowsOf(b, kind)
        lst  == GetAttrOf(b.ns, KindAttr(kind))
        cols == GetAttrOf(b.ns, s_u_columns).v
        flat == ColumnKeys(b.heap, cols, kind)
    IN  /\ lst.kind = "ColumnSet"
        /\ Len(lst.v) = Len(rows)
        /\ \A i \in 1..Len(rows) :
              /\ lst.v[i].schema = rows[i][2]
              /\ lst.v[i].table = rows[i][3]
              /\ lst.v[i].name = rows[i][4]
              /\ \E j \in 1..Len(cols) :
                    /\ b.heap[cols[j]].name = rows[i][1]
                    /\ b.heap[cols[j]].type = lst.v[i].type
                    /\ CountIn(b.heap[cols[j]][kind], lst.v[i]) >= 1
        /\ Len(flat) = Len(lst.v)
        /\ \A i \in 1..Len(flat) : CountIn(flat, flat[i]) = CountIn(lst.v, flat[i])

\* C21: a constructed Table's foreign_keys holds one stub per foreign-key
\* row, in row order, each with the row's target schema, table and column and
\* the type of the owning column; the stub is also in the owning Column's
\* foreign_keys, and the Table's list has the same members as the lists of its
\* Columns together; likewise for ref_keys.
C21_KeyListsPerRow ==
    \A b \in {ctor.first, ctor.second} :
        (b.set /\ b.ok) =>
            /\ KeyListsAgree(b, "foreign_keys")
            /\ KeyListsAgree(b, "ref_keys")

\* a Table was constructed from two foreign-key rows that come in the
\* reverse order of their columns, another from two ref-key rows
C21_Witness ==
    /\ ctor.first.set
    /\ ctor.first.ok
    /\ \/ /\ Len(GetAttrOf(ctor.first.ns, s_foreign_keys).v) = 2
          /\ KeyRowsOf(ctor.first, "foreign_keys")[1][1] = catalog.cols[2].column
       \/ Len(GetAttrOf(ctor.first.ns, s_ref_keys).v) = 2

\* the stubs of a key list are those of the tuples, in order
StubsOfTuples(stubs, tuples) ==
    /\ Len(stubs) = Len(tuples)
    /\ \A i \in 1..Len(tuples) :
          /\ stubs[i].schema = tuples[i][2]
          /\ stubs[i].table = tuples[i][3]
          /\ stubs[i].name = tuples[i][4]

\* C22: a Table constructed with its foreign-key and its ref-key tuples
\* supplied as lists executes no catalog query and builds foreign_keys and
\* ref_keys from the supplied tuples only; a key query is executed only for a
\* key kind whose list was not supplied.
C22_SuppliedKeysNoQuery ==
    ctor.cached.set =>
        LET b == ctor.cached IN
        /\ (b.given.foreign_keys.some /\ b.given.ref_keys.some) => b.queries = <<>>
        /\ \A i \in 1..Len(b.queries) : ~b.given[b.queries[i]].some
        /\ b.ok =>
              /\ b.given.foreign_keys.some =>
                    StubsOfTuples(GetAttrOf(b.ns, s_foreign_keys).v, b.given.foreign_keys.v)
              /\ b.given.ref_keys.some =>
                    StubsOfTuples(GetAttrOf(b.ns, s_ref_keys).v, b.given.ref_keys.v)
              /\ ~b.given.foreign_keys.some => CountIn(b.queries, "foreign_keys") = 1
              /\ ~b.given.ref_keys.some => CountIn(b.queries, "ref_keys") = 1

\* a Table of a catalog that has a foreign key was constructed from an empty
\* list of foreign keys and a supplied ref-key tuple, with no query
C22_Witness ==
    /\ ctor.cached.set
    /\ ctor.cached.ok
    /\ ctor.cached.given.foreign_keys = Some(<<>>)
    /\ ctor.cached.given.ref_keys.some
    /\ ctor.cached.given.ref_keys.v # <<>>
    /\ ForeignKeysForTable(dialect, catalog, Artist, s_main) # <<>>
    /\ ctor.cached.queries = <<>>
    /\ Len(GetAttrOf(ctor.cached.ns, s_ref_keys).v) = 1

----------------------------------------------------------------------------
(* The system queries of every dialect of query_templates: the select list  *)
(* and the conditions of each template, how refresh_schema and              *)
(* Table.__init__ fill them in, and what the backend returns for the text.  *)

AllDialects == {"mysql", "postgres", "redshift", "sqlite", "mssql"}

\* query_templates[dbtype]: redshift is given the templates of postgres
TemplatesOf(d) == IF d = "redshift" THEN "postgres" ELSE d

s_information_schema ==
    <<"i", "n", "f", "o", "r", "m", "a", "t", "i", "o", "n", "_", "s", "c", "h", "e", "m", "a">>
s_percent_s == <<"%", "s">>
Columns_t   == <<"c", "o", "l", "u", "m", "n", "s">>

\* an item of a select list: a column of the catalog view, or a literal
SelCol(name) == [kind |-> "col", name |-> name, v |-> <<>>]
SelLit(v)    == [kind |-> "lit", name |-> "", v |-> v]

\* the right-hand side of a condition: a {name} placeholder of str.format, a
\* %s placeholder of the % operator, or text
Named(name) == [kind |-> "named", name |-> name, v |-> <<>>]
PercentS    == [kind |-> "percent_s", name |-> "", v |-> <<>>]
Text(v)     == [kind |-> "text", name |-> "", v |-> v]

Cond(field, piece) == [field |-> field, piece |-> piece]

\* queries['system'][key] of the dialect's module; the fields of a catalog
\* row are named as in Col and FK
HasTemplate(d, key) == ~(TemplatesOf(d) = "sqlite" /\ key = "schema_specified")

ListingSelect(d, key) ==
    CASE TemplatesOf(d) = "sqlite" ->
             <<SelLit(s_public), SelCol("table"), SelCol("column"), SelCol("data_type")>>
      [] TemplatesOf(d) = "mssql" ->
             <<SelCol("table"), SelCol("column"), SelCol("data_type")>>
      [] TemplatesOf(d) = "postgres" ->
             <<SelCol("schema"), SelCol("table"), SelCol("column"), SelCol("udt_name")>>
      [] OTHER ->
             <<SelCol("schema"), SelCol("table"), SelCol("column"),
               SelCol(IF key = "schema_specified" THEN "udt_name" ELSE "data_type")>>

\* the where clause of a listing template: none, table_schema not in (the
\* dialect's system schemas), table_schema in (%s)
ListingFilter(d, key) ==
    IF TemplatesOf(d) = "sqlite" THEN "none"
    ELSE CASE key = "schema_no_system"   -> "not_system"
           [] key = "schema_with_system" -> "none"
           [] key = "schema_specified"   -> "in_percent_s"

KeySelect(d, key) ==
    CASE TemplatesOf(d) = "sqlite" ->
             IF key = "foreign_keys_for_table"
             THEN <<SelCol("column"), SelLit(s_public), SelCol("ftable"), SelCol("fcolumn")>>
             ELSE <<SelCol("fcolumn"), SelLit(s_schema), SelCol("table"), SelCol("column")>>
      [] TemplatesOf(d) = "mssql" ->
             IF key = "foreign_keys_for_table"
             THEN <<SelCol("column"), SelCol("ftable"), SelCol("fcolumn")>>
             ELSE <<SelCol("column"), SelCol("table"), SelCol("column")>>
      [] OTHER ->
             IF key = "foreign_keys_for_table"
             THEN <<SelCol("column"), SelCol("fschema"), SelCol("ftable"), SelCol("fcolumn")>>
             ELSE <<SelCol("fcolumn"), SelCol("schema"), SelCol("table"), SelCol("column")>>

\* what a key template selects from: the foreign-key constraints, or (the
\* ref-key template of mssql) the default constraints
KeyFrom(d, key) ==
    IF TemplatesOf(d) = "mssql" /\ key = "ref_keys_for_table"
    THEN "default_constraints" ELSE "foreign_keys"

KeyWhere(d, key) ==
    LET side == IF key = "foreign_keys_for_table" THEN "table" ELSE "ftable" IN
    CASE TemplatesOf(d) = "sqlite"   -> <<Cond(side, Named("table"))>>
      [] TemplatesOf(d) = "mysql"    -> <<Cond(side, Named("table")),
                                          Cond("schema", Named("table_schema"))>>
      [] TemplatesOf(d) = "postgres" -> <<Cond(side, PercentS)>>
      [] TemplatesOf(d) = "mssql"    ->
             <<Cond("table", PercentS)>>

\* template.format(...) that also fills a %s with the table name
StrFormat_filling_percent(where, table, table_schema) ==
    Map(where, LAMBDA c :
        CASE c.piece.kind = "named" /\ c.piece.name = "table" -> Cond(c.field, Text(table))
          [] c.piece.kind = "named" /\ c.piece.name = "table_schema" ->
                 Cond(c.field, Text(table_schema))
          [] c.piece.kind = "percent_s" -> Cond(c.field, Text(table))
          [] OTHER -> c)

\* template.format(table=..., table_schema=...): the {table} and
\* {table_schema} placeholders are filled in, anything else is left as it is
StrFormat(where, table, table_schema) ==
    Map(where, LAMBDA c :
        CASE c.piece.kind = "named" /\ c.piece.name = "table" -> Cond(c.field, Text(table))
          [] c.piece.kind = "named" /\ c.piece.name = "table_schema" ->
                 Cond(c.field, Text(table_schema))
          [] OTHER -> c)

\* the characters a piece is in the text sent to the backend
LiteralOf(piece) == IF piece.kind = "percent_s" THEN s_percent_s ELSE piece.v

\* the rows of a select list over the matching rows of a catalog view
Project(select, rows) ==
    Map(rows, LAMBDA r :
        Map(select, LAMBDA s : IF s.kind = "lit" THEN s.v
                               ELSE IF s.name \in {"data_type", "udt_name"} THEN r.type
                               ELSE r[s.name]))

\* the backend runs a key query
ExecuteKeys(d, cat, select, from, where) ==
    IF from # "foreign_keys" THEN <<>>
    ELSE Project(select,
                 SelectSeq(cat.fks, LAMBDA k :
                     \A i \in 1..Len(where) : k[where[i].field] = LiteralOf(where[i].piece)))

\* the columns information_schema.columns has in the backend; the metatable
\* of SQLite has data_type
HasViewColumn(d, name) == name = "udt_name" => d \in {"postgres", "redshift"}

SystemSchemas == {s_information_schema}

\* the backend runs a listing query; an unknown column and an empty in () are
\* errors of the backend
ExecuteListing(d, cat, select, filter, schemas) ==
    IF \E i \in 1..Len(select) : select[i].kind = "col" /\ ~HasViewColumn(d, select[i].name)
    THEN [status |-> "sql_error", rows |-> <<>>]
    ELSE IF filter = "in_percent_s" /\ schemas = <<>>
    THEN [status |-> "sql_error", rows |-> <<>>]
    ELSE [status |-> "ok",
          rows |-> Project(select,
                     SelectSeq(cat.cols, LAMBDA c :
                         CASE filter = "not_system"   -> c.schema \notin SystemSchemas
                           [] filter = "in_percent_s" -> c.schema \in Range(schemas)
                           [] OTHER -> TRUE))]

\* refresh_schema: which listing template is used
ListingKey(d, schemas, exclude_system_tables) ==
    IF schemas.some /\ HasTemplate(d, "schema_specified") THEN "schema_specified"
    ELSE IF exclude_system_tables THEN "schema_no_system"
    ELSE "schema_with_system"

\* the number of fields refresh_schema of db.py unpacks from a listing row,
\* and Table.__init__ of table.py from a key row
ListingUnpack == 3
KeyUnpack     == 4

\* the table name and the schema of a listing row: the last three fields are
\* table, column and type
TableOfRow(row) == row[Len(row) - 2]

SchemaOfRow(row) == IF Len(row) = 4 THEN row[1] ELSE <<>>

KeyQuery(d, cat, key, table, table_schema) ==
    LET where == StrFormat(KeyWhere(d, key), table, table_schema)
    IN  [key |-> key, table |-> table, where |-> where,
         rows |-> ExecuteKeys(d, cat, KeySelect(d, key), KeyFrom(d, key), where)]

\* refresh_schema up to the end of its loop over the listing rows
ListColumns ==
    /\ ~issued.listing.set
    /\ \E exclude \in BOOLEAN :
          LET key == ListingKey(dialect, db.fields.schemas, exclude)
              r   == ExecuteListing(dialect, Backend, ListingSelect(dialect, key),
                                    ListingFilter(dialect, key), db.fields.schemas.v)
          IN  issued' = [issued EXCEPT
                           !.listing = [set |-> TRUE, key |-> key, exclude |-> exclude,
                                        status |-> r.status, rows |-> r.rows],
                           !.todo = Sorted({TableOfRow(r.rows[i]) : i \in 1..Len(r.rows)})]
    /\ UNCHANGED <<refreshVars, colq, ctor, home, db, con, ret, qry, upload>>

\* Table.__init__ for the next table of the listing: its two key queries
TableKeyQueries ==
    /\ issued.listing.set
    /\ issued.todo # <<>>
    /\ LET t == Head(issued.todo)
           s == SchemaOfRow(issued.listing.rows[
                    CHOOSE i \in 1..Len(issued.listing.rows) :
                        TableOfRow(issued.listing.rows[i]) = t])
       IN  issued' = [issued EXCEPT
                        !.todo = Tail(@),
                        !.log = @ \o << KeyQuery(dialect, Backend, "foreign_keys_for_table", t, s),
                                        KeyQuery(dialect, Backend, "ref_keys_for_table", t, s) >>]
    /\ UNCHANGED <<refreshVars, colq, ctor, home, db, con, ret, qry, upload>>

\* backends with a table in a second schema and one in a system schema
DialectCatalogs ==
    { [cols |-> TrackCols(s_aux) \o ArtistCols \o AlbumCols
                \o <<Col(s_information_schema, Columns_t, s_name, TEXT)>>,
       fks  |-> <<AlbumArtist, TrackAlbum(s_aux)>>],
      [cols |-> ArtistCols \o AlbumCols, fks |-> <<AlbumArtist>>] }

\* DB(schemas=...): no allow-list, or a list of schemas
SchemaLists == { None, Some(<<>>), Some(<<s_main>>), Some(<<s_main, s_aux>>) }

InitDialects ==
    /\ dialect \in AllDialects
    /\ catalog \in DialectCatalogs
    /\ metatable = catalog
    /\ columns = <<>>
    /\ tables = <<>>
    /\ tablesets = << <<>> >>
    /\ db_tables = 1
    /\ pc = "idle"
    /\ loc = NoLoc
    /\ outcome = Outcome("none", "", <<>>)
    /\ pre = NoPre
    /\ published = << <<>> >>
    /\ held = 0
    /\ found = NoFind
    /\ nrefresh = 0
    /\ res = NoRes
    /\ ctor = NoCtor
    /\ home = {}
    /\ db \in { [made |-> TRUE,
                 fields |-> Fields(None, None, Some(s_localhost), None, None, None,
                                   Some(<<dialect>>), l, None, None),
                 snapshot |-> <<>>] : l \in SchemaLists }
    /\ con = <<>>
    /\ ret = NoRet
    /\ qry = NoQry
    /\ issued = NoIssued
    /\ upload = NoUpload
    /\ colq = NoColq

NextDialects ==
    \/ ListColumns
    \/ TableKeyQueries

SpecDialects == InitDialects /\ [][NextDialects]_vars

\* the key queries issued for table t with the given template
QueriesIssued(key, t) ==
    {i \in 1..Len(issued.log) : issued.log[i].key = key /\ issued.log[i].table = t}

\* the text of a key query names t and no placeholder is left in it
ScopedTo(q, t) ==
    /\ \A i \in 1..Len(q.where) : q.where[i].piece.kind = "text"
    /\ \E i \in 1..Len(q.where) :
          q.where[i].field \in {"table", "ftable"} /\ q.where[i].piece.v = t

\* C23: in per-table mode every table of the listing gets exactly one
\* foreign-key query and exactly one ref-key query, and in every dialect the
\* text issued for table T is the dialect's template with its placeholders
\* filled in by T's name (and schema).
C23_PerTableQueriesScoped ==
    (issued.listing.set /\ issued.todo = <<>>) =>
        \A t \in {TableOfRow(issued.listing.rows[i]) : i \in 1..Len(issued.listing.rows)} :
            \A key \in {"foreign_keys_for_table", "ref_keys_for_table"} :
                /\ Cardinality(QueriesIssued(key, t)) = 1
                /\ \A i \in QueriesIssued(key, t) : ScopedTo(issued.log[i], t)

\* the schema a listing row belongs to: the one it reports, or, when the row
\* has no schema field, the one the catalog has for its table and column
ListedSchemaOf(row) ==
    IF Len(row) = 4 THEN row[1]
    ELSE LET c == CHOOSE c \in Range(Backend.cols) :
                      c.table = TableOfRow(row) /\ c.column = row[Len(row) - 1]
         IN  c.schema

\* C24: with a schema allow-list configured the listing is restricted to the
\* listed schemas, so every listed table belongs to a listed schema;
\* otherwise with exclude_system_tables the system schemas are left out;
\* otherwise every schema is listed.
C24_ListingPriority ==
    issued.listing.set =>
        IF db.fields.schemas.some
        THEN /\ issued.listing.key = "schema_specified"
             /\ \A i \in 1..Len(issued.listing.rows) :
                   ListedSchemaOf(issued.listing.rows[i]) \in Range(db.fields.schemas.v)
        ELSE IF issued.listing.exclude
        THEN /\ issued.listing.key = "schema_no_system"
             /\ \A i \in 1..Len(issued.listing.rows) :
                   ListedSchemaOf(issued.listing.rows[i]) \notin SystemSchemas
        ELSE /\ issued.listing.key = "schema_with_system"
             /\ Len(issued.listing.rows) = Len(Backend.cols)

\* C28: in every dialect of the mapping the rows of the listing queries have
\* the number of fields refresh_schema unpacks and the rows of the per-table
\* key queries have the number of fields Table.__init__ unpacks.
C28_RowShapes ==
    /\ \A i \in 1..Len(issued.listing.rows) : Len(issued.listing.rows[i]) = ListingUnpack
    /\ \A i \in 1..Len(issued.log) :
          \A j \in 1..Len(issued.log[i].rows) : Len(issued.log[i].rows[j]) = KeyUnpack

----------------------------------------------------------------------------
(* DB.to_redshift: the calling thread, one worker thread per chunk, the S3   *)
(* buckets and their objects, and the commands executed on the connection.   *)

MaxChunks == 3

\* an object of a bucket: a chunk uploaded under 'data-<i>-<i + chunk_size>.csv.gz',
\* or anything else
ChunkObject(bucket, i) == [bucket |-> bucket, kind |-> "chunk", n |-> i]
OtherObject(bucket)    == [bucket |-> bucket, kind |-> "other", n |-> 0]

UserBucket == "user"
TempBucket == "dbpy-uuid4"

\* what S3 holds when to_redshift is called: the user's bucket, with some
\* objects in it
InitialObjects == SUBSET {OtherObject(UserBucket), ChunkObject(UserBucket, 1)}

\* to_redshift from its first line to the creation of the bucket: only for
\* redshift; get_bucket(s3_bucket) when a bucket is given, else create_bucket
ToRedshiftCall ==
    /\ upload.pc = "none"
    /\ \E n \in 0..MaxChunks, drop \in BOOLEAN, given \in BOOLEAN :
          IF db.fields.dbtype # Some(t_redshift)
          THEN upload' = [upload EXCEPT !.pc = "returned", !.result = "raised",
                                        !.args = [nchunks |-> n, drop |-> drop,
                                                  s3_bucket |-> given],
                                        !.before = upload.objects]
          ELSE upload' = [upload EXCEPT
                            !.pc = IF n = 0 THEN "join" ELSE "start",
                            !.args = [nchunks |-> n, drop |-> drop, s3_bucket |-> given],
                            !.bucket = IF given THEN UserBucket ELSE TempBucket,
                            !.buckets = IF given THEN @ ELSE @ \cup {TempBucket},
                            !.before = upload.objects]
    /\ UNCHANGED <<refreshVars, colq, ctor, home, db, con, ret, qry, issued>>

\* for i in chunks: t = threading.Thread(...); t.start(); threads.append(t)
StartWorker ==
    /\ upload.pc = "start"
    /\ upload' = [upload EXCEPT
                    !.workers = Append(@, "running"),
                    !.pc = IF Len(upload.workers) + 1 = upload.args.nchunks
                           THEN "join" ELSE "start"]
    /\ UNCHANGED <<refreshVars, colq, ctor, home, db, con, ret, qry, issued>>

\* upload_chunk(i) in its thread: the chunk is stored under its key, or an
\* exception ends the thread
WorkerEnds ==
    /\ \E i \in 1..Len(upload.workers), status \in {"done", "failed"} :
          /\ upload.workers[i] = "running"
          /\ upload' = [upload EXCEPT
                          !.workers[i] = status,
                          !.objects = IF status = "done"
                                      THEN @ \cup {ChunkObject(upload.bucket, i)} ELSE @]
    /\ UNCHANGED <<refreshVars, colq, ctor, home, db, con, ret, qry, issued>>

\* for t in threads: t.join() -- returns when the thread has ended, however
\* it ended
JoinWorker ==
    /\ upload.pc = "join"
    /\ IF upload.joined = Len(upload.workers)
       THEN upload' = [upload EXCEPT !.pc = IF upload.args.drop THEN "drop" ELSE "create"]
       ELSE /\ upload.workers[upload.joined + 1] \in {"done", "failed"}
            /\ upload' = [upload EXCEPT !.joined = @ + 1]
    /\ UNCHANGED <<refreshVars, colq, ctor, home, db, con, ret, qry, issued>>

\* if drop_if_exists: self._try_command("DROP TABLE IF EXISTS ...")
DropTable ==
    /\ upload.pc = "drop"
    /\ upload' = [upload EXCEPT !.commands = Append(@, "DROP"), !.pc = "create"]
    /\ UNCHANGED <<refreshVars, colq, ctor, home, db, con, ret, qry, issued>>

\* self._try_command("CREATE TABLE IF NOT EXISTS ..."); self.con.commit()
CreateTable ==
    /\ upload.pc = "create"
    /\ upload' = [upload EXCEPT !.commands = Append(@, "CREATE TABLE"), !.pc = "copy"]
    /\ UNCHANGED <<refreshVars, colq, ctor, home, db, con, ret, qry, issued>>

\* self._try_command("copy ... from 's3://<bucket>/data' ..."); self.con.commit()
CopyFromS3 ==
    /\ upload.pc = "copy"
    /\ upload' = [upload EXCEPT !.commands = Append(@, "COPY"), !.pc = "teardown"]
    /\ UNCHANGED <<refreshVars, colq, ctor, home, db, con, ret, qry, issued>>

\* for key in bucket.list(): key.delete(); if not s3_bucket:
\* conn.delete_bucket(bucket_name); then to_redshift returns
TearDown(u) ==
    [u EXCEPT
        !.objects = {o \in @ : o.bucket # u.bucket},
        !.buckets = IF u.args.s3_bucket THEN @ ELSE @ \ {u.bucket},
        !.pc = "returned", !.result = "ok"]

TearDownBucket ==
    /\ upload.pc = "teardown"
    /\ upload' = TearDown(upload)
    /\ UNCHANGED <<refreshVars, colq, ctor, home, db, con, ret, qry, issued>>

InitUpload ==
    /\ dialect = "mysql"
    /\ catalog = ConnectCatalog
    /\ metatable = catalog
    /\ columns = <<>>
    /\ tables = <<>>
    /\ tablesets = << <<>> >>
    /\ db_tables = 1
    /\ pc = "idle"
    /\ loc = NoLoc
    /\ outcome = Outcome("none", "", <<>>)
    /\ pre = NoPre
    /\ published = << <<>> >>
    /\ held = 0
    /\ found = NoFind
    /\ nrefresh = 0
    /\ res = NoRes
    /\ ctor = NoCtor
    /\ home = {}
    /\ db \in { [made |-> TRUE,
                 fields |-> Fields(Some(s_kermit), None, Some(s_localhost), None, None, None,
                                   Some(t), None, None, None),
                 snapshot |-> <<>>] : t \in {t_redshift, t_postgres} }
    /\ con = <<>>
    /\ ret = NoRet
    /\ qry = NoQry
    /\ issued = NoIssued
    /\ colq = NoColq
    /\ upload \in { [NoUpload EXCEPT !.buckets = {UserBucket}, !.objects = o] :
                      o \in InitialObjects }

NextUpload ==
    \/ ToRedshiftCall
    \/ StartWorker
    \/ WorkerEnds
    \/ JoinWorker
    \/ DropTable
    \/ CreateTable
    \/ CopyFromS3
    \/ TearDownBucket

SpecUpload == InitUpload /\ [][NextUpload]_vars

\* C25: one worker thread is started per chunk and all are joined before the
\* upload goes on: no DROP, CREATE TABLE or COPY is executed while a worker
\* is running; a worker that fails does not stop the others, and its failure
\* reaches the caller once all workers have ended.
C25_WorkersJoinedFailuresSurface ==
    /\ upload.pc \notin {"none", "start"} /\ upload.result # "raised" =>
          Len(upload.workers) = upload.args.nchunks
    /\ upload.commands # <<>> =>
          \A i \in 1..Len(upload.workers) : upload.workers[i] \in {"done", "failed"}
    /\ \A i \in 1..Len(upload.workers) : upload.workers[i] \in {"running", "done", "failed"}
    /\ (upload.pc = "returned" /\ \E i \in 1..Len(upload.workers) : upload.workers[i] = "failed")
          => upload.result = "raised"

\* C30: with an existing bucket given, the objects that were in it before
\* the call are in it after the call and the bucket is not deleted; a bucket
\* is deleted only when the call created it.
C30_ExistingBucketKept ==
    (upload.pc = "returned" /\ upload.result = "ok") =>
        /\ upload.args.s3_bucket =>
              /\ UserBucket \in upload.buckets
              /\ upload.before \subseteq upload.objects
        /\ UserBucket \in upload.buckets

----------------------------------------------------------------------------
(* Properties of the Columns of a published snapshot *)

\* the Columns the Tables of the published snapshot own, each with its owner
OwnedPairs ==
    Flatten(Map(tablesets[db_tables],
                LAMBDA t : Map(tables[t].cols, LAMBDA c : [t |-> t, c |-> c])))

\* the Column of an owned pair is the one made for the listing row
MadeFor(p, row) ==
    /\ columns[p.c].schema = row[1]
    /\ columns[p.c].table = row[2]
    /\ columns[p.c].name = row[3]
    /\ columns[p.c].type = row[4]
    /\ tables[p.t].name = row[2]

----------------------------------------------------------------------------
(* The connection and the templates every Column is given, by the Table of  *)
(* db.py and by the Table of table.py, and the query a Column builds.        *)

\* queries_templates.get(dbtype).queries: the templates of one dialect
DialectTemplates(d) == [kind |-> "dialect", d |-> TemplatesOf(d)]

\* queries_templates itself: the mapping from dbtype to module
TemplateMapping == [kind |-> "mapping", d |-> ""]

DBCon == "self.con"

Generations == {"db.py", "table.py"}

\* a Column with the connection and the templates of its constructor call
ColumnWith(kind, connection, qt, table, name) ==
    [kind |-> kind, con |-> connection, qt |-> qt, table |-> table, name |-> name]

\* the templates every stub gets are the mapping of all dialects
StubTemplates_mapping(gen, qt) == TemplateMapping

\* the templates a key loop passes to Column: Table.__init__ of db.py passes
\* the module's queries_templates, that of table.py its parameter
StubTemplates(gen, qt) == IF gen = "db.py" THEN TemplateMapping ELSE qt

\* the fields a listing row and a key row are unpacked into
UnpackOf(gen) == IF gen = "db.py" THEN 3 ELSE 4

\* .format(table=self.name) of db.py raises KeyError on a template that has
\* a {table_schema}; .format(table=, table_schema=) of table.py fills both
FormatRaises(gen, where) ==
    /\ gen = "db.py"
    /\ \E i \in 1..Len(where) :
          where[i].piece.kind = "named" /\ where[i].piece.name = "table_schema"

\* the key rows of both kinds for table t, or that a query could not be built
KeyRowsOfTable(gen, d, cat, t, s) ==
    IF \E key \in {"foreign_keys_for_table", "ref_keys_for_table"} :
          FormatRaises(gen, KeyWhere(d, key))
    THEN [ok |-> FALSE, rows |-> <<>>]
    ELSE [ok |-> TRUE,
          rows |-> KeyQuery(d, cat, "foreign_keys_for_table", t, s).rows
                   \o KeyQuery(d, cat, "ref_keys_for_table", t, s).rows]

\* refresh_schema with exclude_system_tables: the owned Columns, then for
\* every table its stubs
Introspect(gen, d, cat) ==
    LET key     == "schema_no_system"
        listing == ExecuteListing(d, cat, ListingSelect(d, key), ListingFilter(d, key), <<>>)
        rows    == listing.rows
        qt      == DialectTemplates(d)
        owned   == Map(rows, LAMBDA r : ColumnWith("owned", DBCon, qt, TableOfRow(r),
                                                   r[Len(r) - 1]))
        names   == Sorted({TableOfRow(rows[i]) : i \in 1..Len(rows)})
        keys    == Map(names, LAMBDA t :
                       KeyRowsOfTable(gen, d, cat, t,
                           SchemaOfRow(rows[CHOOSE i \in 1..Len(rows) :
                                                TableOfRow(rows[i]) = t])))
        keyrows == Flatten(Map(keys, LAMBDA k : k.rows))
    IN  IF \E i \in 1..Len(rows) : Len(rows[i]) # UnpackOf(gen)
        THEN [status |-> "raised", cols |-> <<>>]
        ELSE IF \E i \in 1..Len(keys) : ~keys[i].ok
        THEN [status |-> "raised", cols |-> <<>>]
        ELSE IF \E i \in 1..Len(keyrows) : Len(keyrows[i]) # UnpackOf(gen)
        THEN [status |-> "raised", cols |-> <<>>]
        ELSE [status |-> "ok",
              cols |-> owned \o Map(keyrows, LAMBDA r :
                                    ColumnWith("stub", DBCon, StubTemplates(gen, qt),
                                               r[Len(r) - 1], r[Len(r)]))]

\* Column.head, all, unique, sample: self._query_templates['column'][method]
\* is looked up (a KeyError in the mapping of all dialects), filled in and
\* read over self._con
ColumnQuery(col, method) ==
    IF col.qt.kind = "dialect"
    THEN [set |-> TRUE, col |-> 0, method |-> method, status |-> "ok",
          templates |-> col.qt.d, con |-> col.con]
    ELSE [set |-> TRUE, col |-> 0, method |-> method, status |-> "KeyError",
          templates |-> "", con |-> col.con]

ColumnMethods == {"head", "all", "unique", "sample"}

\* the DB is created: its constructor ends with refresh_schema
IntrospectColumns ==
    /\ colq.status = "none"
    /\ LET r == Introspect(colq.gen, dialect, Backend)
       IN  colq' = [colq EXCEPT !.status = r.status, !.cols = r.cols]
    /\ UNCHANGED <<refreshVars, ctor, home, db, con, ret, qry, issued, upload>>

\* a method of a Column reachable from the snapshot is called
CallColumnMethod ==
    /\ colq.status = "ok"
    /\ \E i \in 1..Len(colq.cols), m \in ColumnMethods :
          colq' = [colq EXCEPT !.call = [ColumnQuery(colq.cols[i], m) EXCEPT !.col = i]]
    /\ UNCHANGED <<refreshVars, ctor, home, db, con, ret, qry, issued, upload>>

InitColumns ==
    /\ dialect \in AllDialects
    /\ catalog \in DialectCatalogs
    /\ metatable = catalog
    /\ columns = <<>>
    /\ tables = <<>>
    /\ tablesets = << <<>> >>
    /\ db_tables = 1
    /\ pc = "idle"
    /\ loc = NoLoc
    /\ outcome = Outcome("none", "", <<>>)
    /\ pre = NoPre
    /\ published = << <<>> >>
    /\ held = 0
    /\ found = NoFind
    /\ nrefresh = 0
    /\ res = NoRes
    /\ ctor = NoCtor
    /\ home = {}
    /\ db = NoDb
    /\ con = <<>>
    /\ ret = NoRet
    /\ qry = NoQry
    /\ issued = NoIssued
    /\ upload = NoUpload
    /\ colq \in { [NoColq EXCEPT !.gen = g] : g \in Generations }

NextColumns ==
    \/ IntrospectColumns
    \/ CallColumnMethod

SpecColumns == InitColumns /\ [][NextColumns]_vars

C29_ListsDatabaseProfilesOnly ==
    ret.op = "list_profiles" =>
      NamesOf(ret.after) =
        { SubSeq(g.file, Len(ProfilePrefix) + 1, Len(g.file)) :
            g \in {k \in home : k.kind = "db"} }

====
